---- MODULE Spec2Model ----
(***************************************************************************)
(* Model of decide-test-mcp: the test code generator                       *)
(* (TestCodeGenerator.generate and its helpers) and the decision table     *)
(* parser (DecisionTableParser.parse and its helpers).                     *)
(*                                                                         *)
(* JavaScript strings are modelled as sequences of one-character strings,  *)
(* so that toLowerCase, trim, split and the regular-expression replaces    *)
(* are computed character by character.  An optional value is a sequence   *)
(* of length 0 (undefined) or 1 (the value).                               *)
(***************************************************************************)
EXTENDS Integers, Sequences, FiniteSets, TLC

VARIABLES
    request,         \* the TestCodeGenerationRequest of the generate() call
    pc,              \* position of generate(): start, group, loop, then done
                     \* (promise resolved) or rejected (promise rejected)
    groupedTests,    \* Object.entries(groupedTests), the buckets in loop order
    cursor,          \* index of the next bucket of the for..of loop
    generatedFiles,  \* const generatedFiles: GeneratedFile[]
    errors,          \* const errors: string[]
    result,          \* the value generate() resolved with (None until then)
    writes,          \* log of fs.writeFile calls that succeeded: <<path, content>>
    pending,         \* the buckets (indexes) whose fs.writeFile has not settled
    call,            \* the parse() call: tablePath, format and the file at the path
    ppc,             \* position of parse(): start, read, then done or rejected
    fileContent,     \* const fileContent (None before readFile resolved)
    table,           \* the DecisionTable parse() resolved with (None until then)
    thrown,          \* the error parse() rejected with (None until then)
    fnArg,           \* the arguments of a helper called on its own
    fnOut,           \* what the helper returned (None until it returned)
    fnPc,            \* position of the helper call: start, then returned
    browser,         \* WebAgent.browser: 0 for null, else the browser launched n-th
    calls,           \* the execute() calls on the agent: position and own browser
    closes,          \* per launched browser, the number of close() calls on it
    cleanup          \* position of the cleanup() call: idle, closing, done

genVars == <<request, pc, groupedTests, cursor, generatedFiles, errors, result, writes,
             pending>>
parseVars == <<call, ppc, fileContent, table, thrown>>
fnVars == <<fnArg, fnOut, fnPc>>
webVars == <<browser, calls, closes, cleanup>>

(***************************************************************************)
(* Bounds of the model.                                                    *)
(***************************************************************************)
MaxCases == 2
MaxStepsEntries == 2
MaxRows == 2
MaxTokens == 3
MaxValueLen == 3
MaxStemLen == 2
MaxNameLen == 3
MaxSteps == 2
MaxCalls == 2

(***************************************************************************)
(* Optional values and strings.                                            *)
(***************************************************************************)
None == <<>>
Some(x) == <<x>>
IsSome(o) == Len(o) = 1

UpperChars == <<"A","B","C","D","E","F","G","H","I","J","K","L","M",
                "N","O","P","Q","R","S","T","U","V","W","X","Y","Z">>
LowerChars == <<"a","b","c","d","e","f","g","h","i","j","k","l","m",
                "n","o","p","q","r","s","t","u","v","w","x","y","z">>
DigitChars == <<"0","1","2","3","4","5","6","7","8","9">>

IsUpper(c) == \E i \in 1..26 : UpperChars[i] = c
IsLower(c) == \E i \in 1..26 : LowerChars[i] = c
IsDigit(c) == \E i \in 1..10 : DigitChars[i] = c

toLowerCaseChar(c) ==
    IF IsUpper(c) THEN LowerChars[CHOOSE i \in 1..26 : UpperChars[i] = c] ELSE c

toUpperCaseChar(c) ==
    IF IsLower(c) THEN UpperChars[CHOOSE i \in 1..26 : LowerChars[i] = c] ELSE c

toLowerCase(s) == [i \in 1..Len(s) |-> toLowerCaseChar(s[i])]

\* String.prototype.trim: drops the white space at both ends.
IsSpace(c) == c = " "

RECURSIVE trimStart(_)
trimStart(s) ==
    IF s # <<>> /\ IsSpace(Head(s)) THEN trimStart(Tail(s)) ELSE s

RECURSIVE trimEnd(_)
trimEnd(s) ==
    IF s # <<>> /\ IsSpace(s[Len(s)]) THEN trimEnd(SubSeq(s, 1, Len(s) - 1)) ELSE s

trim(s) == trimEnd(trimStart(s))

\* String.prototype.split(sep) for a one-character separator: always at
\* least one fragment, the empty string splits to <<"">>.
RECURSIVE splitFrom(_, _, _)
splitFrom(s, sep, cur) ==
    IF s = <<>> THEN <<cur>>
    ELSE IF Head(s) = sep THEN <<cur>> \o splitFrom(Tail(s), sep, <<>>)
    ELSE splitFrom(Tail(s), sep, Append(cur, Head(s)))

split(s, sep) == splitFrom(s, sep, <<>>)

\* Array.prototype.join
RECURSIVE join(_, _)
join(parts, sep) ==
    IF parts = <<>> THEN <<>>
    ELSE IF Len(parts) = 1 THEN parts[1]
    ELSE parts[1] \o sep \o join(Tail(parts), sep)

\* Array.prototype.filter(Boolean) on strings: drops the empty strings.
RECURSIVE filterBoolean(_)
filterBoolean(parts) ==
    IF parts = <<>> THEN <<>>
    ELSE IF Head(parts) = <<>> THEN filterBoolean(Tail(parts))
    ELSE <<Head(parts)>> \o filterBoolean(Tail(parts))

Range(s) == {s[i] : i \in 1..Len(s)}

\* All sequences over S of length at most n.
SeqsUpTo(S, n) == UNION {[1..k -> S] : k \in 0..n}


(***************************************************************************)
(* Inputs of generate().                                                   *)
(***************************************************************************)
StrGeneral == <<"g","e","n","e","r","a","l">>
StrConstructor == <<"c","o","n","s","t","r","u","c","t","o","r">>

\* Tag texts the requests are drawn from: two names that differ by case
\* only, an integer-like name, a name Object.prototype also has, and ''.
TagPool == {<<"b">>, <<"B">>, <<"1">>, StrConstructor, <<>>}

\* testCase.tags: undefined, [] or a list whose first element is a pool tag.
TagsPool == {None, Some(<<>>)} \cup {Some(<<t>>) : t \in TagPool}

TestCaseIds == {"TC1", "TC2"}

TestCasePool == [id : TestCaseIds, tags : TagsPool]

\* TestSteps entries; steps stands for the entry's ordered step list.
TestStepsPool == {[test_case_id |-> "TC1", steps |-> "s1"],
                  [test_case_id |-> "TC1", steps |-> "s2"],
                  [test_case_id |-> "TC2", steps |-> "s1"]}

\* request.language: undefined, 'typescript' or 'javascript'.
LanguagePool == {None, Some("typescript"), Some("javascript")}

\* request.output_path: a directory fs.mkdir can create, and one it cannot.
OutputPathPool == {"out", "/root/no-permission"}
Creatable(outputPath) == outputPath = "out"

RequestPool ==
    [test_cases : SeqsUpTo(TestCasePool, MaxCases),
     steps : SeqsUpTo(TestStepsPool, MaxStepsEntries),
     language : LanguagePool,
     output_path : OutputPathPool]

(***************************************************************************)
(* JavaScript objects used as dictionaries.  An object is the sequence of  *)
(* its own entries <<key, value>> in insertion order.                      *)
(***************************************************************************)
HasOwn(obj, k) == \E i \in 1..Len(obj) : obj[i][1] = k

OwnIndex(obj, k) == CHOOSE i \in 1..Len(obj) : obj[i][1] = k

\* Names every object inherits from Object.prototype (those in TagPool).
ObjectPrototypeKeys == {StrConstructor}

\* An array index key: canonical decimal numeral.
IsArrayIndex(k) ==
    /\ k # <<>>
    /\ Len(k) <= 9
    /\ \A i \in 1..Len(k) : IsDigit(k[i])
    /\ (Len(k) > 1 => k[1] # "0")

DigitVal(c) == (CHOOSE i \in 1..10 : DigitChars[i] = c) - 1

RECURSIVE NumVal(_)
NumVal(k) ==
    IF k = <<>> THEN 0 ELSE 10 * NumVal(SubSeq(k, 1, Len(k) - 1)) + DigitVal(k[Len(k)])

RECURSIVE SortIndexEntries(_)
SortIndexEntries(es) ==
    IF es = <<>> THEN <<>>
    ELSE LET m == CHOOSE i \in 1..Len(es) :
                      \A j \in 1..Len(es) : NumVal(es[i][1]) <= NumVal(es[j][1])
         IN  <<es[m]>> \o SortIndexEntries([i \in 1..(Len(es) - 1) |->
                                               IF i < m THEN es[i] ELSE es[i + 1]])

\* Object.entries: array-index keys first in ascending numeric order, then
\* the other keys in insertion order.
ObjectEntries(obj) ==
    SortIndexEntries(SelectSeq(obj, LAMBDA e : IsArrayIndex(e[1])))
        \o SelectSeq(obj, LAMBDA e : ~IsArrayIndex(e[1]))

(***************************************************************************)
(* groupTestCases                                                          *)
(***************************************************************************)
\* FindSteps returning the last entry that matches
FindStepsLast(steps, id) ==
    IF \E i \in 1..Len(steps) : steps[i].test_case_id = id
    THEN Some(steps[CHOOSE i \in 1..Len(steps) :
                      /\ steps[i].test_case_id = id
                      /\ \A j \in (i + 1)..Len(steps) : steps[j].test_case_id # id])
    ELSE None

\* steps.find((s) => s.test_case_id === testCase.id): first match or undefined
FindSteps(steps, id) ==
    IF \E i \in 1..Len(steps) : steps[i].test_case_id = id
    THEN Some(steps[CHOOSE i \in 1..Len(steps) :
                      /\ steps[i].test_case_id = id
                      /\ \A j \in 1..(i - 1) : steps[j].test_case_id # id])
    ELSE None

\* testCase.tags?.[0] || 'general'
GroupNameOf(testCase) ==
    IF IsSome(testCase.tags) /\ testCase.tags[1] # <<>> /\ testCase.tags[1][1] # <<>>
    THEN testCase.tags[1][1]
    ELSE StrGeneral

\* The loop of groupTestCases from test case i on; groups is the object built
\* so far.  threw: groups[groupName] found an inherited, non-array value and
\* .push on it raised a TypeError.
RECURSIVE GroupLoop(_, _, _, _)
GroupLoop(testCases, steps, i, groups) ==
    IF i > Len(testCases) THEN [threw |-> FALSE, groups |-> groups]
    ELSE LET testCase == testCases[i]
             testSteps == FindSteps(steps, testCase.id)
             groupName == GroupNameOf(testCase)
             item == [testCase |-> testCase, steps |-> testSteps[1]]
         IN  IF ~IsSome(testSteps)
             THEN GroupLoop(testCases, steps, i + 1, groups)
             ELSE IF HasOwn(groups, groupName)
             THEN LET k == OwnIndex(groups, groupName)
                  IN  GroupLoop(testCases, steps, i + 1,
                                [groups EXCEPT ![k] = <<groupName, Append(@[2], item)>>])
             ELSE IF groupName \in ObjectPrototypeKeys
             THEN [threw |-> TRUE, groups |-> groups]
             ELSE GroupLoop(testCases, steps, i + 1,
                            Append(groups, <<groupName, <<item>> >>))

groupTestCases(testCases, steps) == GroupLoop(testCases, steps, 1, <<>>)

(***************************************************************************)
(* generateTestFile                                                        *)
(***************************************************************************)
IsAlnumLower(c) == IsLower(c) \/ IsDigit(c)

\* .replace(/[^a-z0-9]+/g, '-'): every maximal run becomes one hyphen.
RECURSIVE CollapseRuns(_, _)
CollapseRuns(s, inRun) ==
    IF s = <<>> THEN <<>>
    ELSE IF IsAlnumLower(Head(s)) THEN <<Head(s)>> \o CollapseRuns(Tail(s), FALSE)
    ELSE IF inRun THEN CollapseRuns(Tail(s), TRUE)
    ELSE <<"-">> \o CollapseRuns(Tail(s), TRUE)

\* .replace(/^-|-$/g, ''): one leading and one trailing hyphen are removed.
StripHyphens(s) ==
    LET t == IF s # <<>> /\ Head(s) = "-" THEN Tail(s) ELSE s
    IN  IF t # <<>> /\ t[Len(t)] = "-" THEN SubSeq(t, 1, Len(t) - 1) ELSE t

\* sanitizeFileName removing a leading hyphen only
sanitizeFileNameLeadingOnly(name) ==
    LET s == CollapseRuns(toLowerCase(name), FALSE)
    IN  IF s # <<>> /\ Head(s) = "-" THEN Tail(s) ELSE s

sanitizeFileName(name) == StripHyphens(CollapseRuns(toLowerCase(name), FALSE))

\* request.language || 'typescript'
LanguageOf(req) == IF IsSome(req.language) THEN req.language[1] ELSE "typescript"

\* `${sanitizeFileName(groupName)}.spec.${language === 'typescript' ? 'ts' : 'js'}`
\* joined to the output path, which is the same for every file of a call.
FilePath(groupName, language) ==
    sanitizeFileName(groupName) \o <<".","s","p","e","c",".">>
        \o (IF language = "typescript" THEN <<"t","s">> ELSE <<"j","s">>)

\* The rendered module: the suite named after the bucket and one block per
\* test case, each holding the steps of its TestSteps entry.
RenderContent(groupName, tests) ==
    [describe |-> groupName,
     blocks |-> [i \in 1..Len(tests) |->
                   [test |-> tests[i].testCase.id, steps |-> tests[i].steps.steps]]]

\* GeneratedFile counting the distinct ids of the bucket
GeneratedFileCountingIds(groupName, tests, language) ==
    [path |-> FilePath(groupName, language),
     content |-> RenderContent(groupName, tests),
     test_count |-> Cardinality({tests[i].testCase.id : i \in 1..Len(tests)})]

\* The GeneratedFile returned once fs.writeFile succeeded.
GeneratedFile(groupName, tests, language) ==
    [path |-> FilePath(groupName, language),
     content |-> RenderContent(groupName, tests),
     test_count |-> Len(tests)]

(***************************************************************************)
(* generate                                                                *)
(***************************************************************************)
RECURSIVE SumTestCount(_)
SumTestCount(files) ==
    IF files = <<>> THEN 0 ELSE Head(files).test_count + SumTestCount(Tail(files))

\* FinalResult counting the rendered test cases instead of the input ones
FinalResultRenderedCount(req, files, errs) ==
    [files_generated |-> files,
     total_tests |-> SumTestCount(files),
     success |-> Len(errs) = 0,
     errors |-> IF Len(errs) > 0 THEN Some(errs) ELSE None]

\* the object returned at the end of the try block
FinalResult(req, files, errs) ==
    [files_generated |-> files,
     total_tests |-> Len(req.test_cases),
     success |-> Len(errs) = 0,
     errors |-> IF Len(errs) > 0 THEN Some(errs) ELSE None]

\* the object returned by the outer catch
FatalResult(req, msg) ==
    [files_generated |-> <<>>,
     total_tests |-> 0,
     success |-> FALSE,
     errors |-> Some(<<[kind |-> "fatal", text |-> msg]>>)]

\* `Failed to generate ${groupName}: ${message}`
BucketError(groupName) == [kind |-> "bucket", text |-> groupName]

\* the execute() calls that can be made on one agent
Calls == 1..MaxCalls

\* the WebAgent after construction, no call made on it
WebIdle ==
    /\ browser = 0
    /\ calls = [c \in Calls |-> [pc |-> "idle", own |-> 0, success |-> FALSE]]
    /\ closes = <<>>
    /\ cleanup = "idle"

\* the parser at rest while generate() runs
IdleCall == [tablePath |-> <<>>, format |-> None, readable |-> FALSE, file |-> <<>>]

GenInit ==
    /\ request \in RequestPool
    /\ pc = "start"
    /\ groupedTests = <<>>
    /\ cursor = 1
    /\ generatedFiles = <<>>
    /\ errors = <<>>
    /\ result = None
    /\ writes = <<>>
    /\ pending = {}
    /\ call = IdleCall
    /\ ppc = "idle"
    /\ fileContent = None
    /\ table = None
    /\ thrown = None
    /\ fnArg = <<>>
    /\ fnOut = <<>>
    /\ fnPc = "idle"
    /\ WebIdle

\* await fs.mkdir(request.output_path, { recursive: true })
MkdirOk ==
    /\ pc = "start"
    /\ Creatable(request.output_path)
    /\ pc' = "group"
    /\ UNCHANGED <<request, groupedTests, cursor, generatedFiles, errors,
                   result, writes, pending>>
    /\ UNCHANGED <<parseVars, fnVars, webVars>>

\* MkdirFail with fs.mkdir awaited outside the try block
MkdirFailThrows ==
    /\ pc = "start"
    /\ ~Creatable(request.output_path)
    /\ pc' = "rejected"
    /\ UNCHANGED <<request, groupedTests, cursor, generatedFiles, errors,
                   result, writes, pending>>
    /\ UNCHANGED <<parseVars, fnVars, webVars>>

\* fs.mkdir rejects: the outer catch returns the fatal result
MkdirFail ==
    /\ pc = "start"
    /\ ~Creatable(request.output_path)
    /\ pc' = "done"
    /\ result' = Some(FatalResult(request, "mkdir"))
    /\ UNCHANGED <<request, groupedTests, cursor, generatedFiles, errors, writes, pending>>
    /\ UNCHANGED <<parseVars, fnVars, webVars>>

\* const groupedTests = this.groupTestCases(...); Object.entries(groupedTests)
Group ==
    /\ pc = "group"
    /\ LET g == groupTestCases(request.test_cases, request.steps)
       IN  IF g.threw
           THEN /\ pc' = "done"
                /\ result' = Some(FatalResult(request, "push is not a function"))
                /\ UNCHANGED groupedTests
           ELSE /\ pc' = "loop"
                /\ groupedTests' = ObjectEntries(g.groups)
                /\ UNCHANGED result
    /\ UNCHANGED <<request, cursor, generatedFiles, errors, writes, pending>>
    /\ UNCHANGED <<parseVars, fnVars, webVars>>

\* WriteFileStart without the await: the loop goes on to the next bucket
\* while earlier writes are pending
WriteFileStartUnawaited ==
    /\ pc = "loop"
    /\ \E j \in cursor..Len(groupedTests) :
          /\ j \notin pending
          /\ \A i \in cursor..(j - 1) : i \in pending
          /\ pending' = pending \cup {j}
    /\ UNCHANGED <<request, pc, groupedTests, cursor, generatedFiles, errors, result, writes>>
    /\ UNCHANGED <<parseVars, fnVars, webVars>>

\* one iteration of the for..of loop up to await fs.writeFile(filePath, ...):
\* the bucket is rendered and its write is issued; the loop is suspended
\* until the write settles
WriteFileStart ==
    /\ pc = "loop"
    /\ cursor <= Len(groupedTests)
    /\ pending = {}
    /\ pending' = {cursor}
    /\ UNCHANGED <<request, pc, groupedTests, cursor, generatedFiles, errors, result, writes>>
    /\ UNCHANGED <<parseVars, fnVars, webVars>>

\* fs.writeFile resolves: generateTestFile returns the file and it is pushed
GenerateFileOk ==
    /\ pc = "loop"
    /\ cursor \in pending
    /\ pending' = pending \ {cursor}
    /\ LET file == GeneratedFile(groupedTests[cursor][1], groupedTests[cursor][2],
                                 LanguageOf(request))
       IN  /\ writes' = Append(writes, <<file.path, file.content>>)
           /\ generatedFiles' = Append(generatedFiles, file)
    /\ cursor' = cursor + 1
    /\ UNCHANGED <<request, pc, groupedTests, errors, result>>
    /\ UNCHANGED <<parseVars, fnVars, webVars>>

\* GenerateFileFail without the inner try/catch: the first failing bucket
\* ends the loop
GenerateFileFailAbort ==
    /\ pc = "loop"
    /\ cursor \in pending
    /\ pending' = pending \ {cursor}
    /\ errors' = Append(errors, BucketError(groupedTests[cursor][1]))
    /\ cursor' = Len(groupedTests) + 1
    /\ UNCHANGED <<request, pc, groupedTests, generatedFiles, result, writes>>
    /\ UNCHANGED <<parseVars, fnVars, webVars>>

\* fs.writeFile rejects: the inner catch records the bucket
GenerateFileFail ==
    /\ pc = "loop"
    /\ cursor \in pending
    /\ pending' = pending \ {cursor}
    /\ errors' = Append(errors, BucketError(groupedTests[cursor][1]))
    /\ cursor' = cursor + 1
    /\ UNCHANGED <<request, pc, groupedTests, generatedFiles, result, writes>>
    /\ UNCHANGED <<parseVars, fnVars, webVars>>

\* the return statement after the loop
Return ==
    /\ pc = "loop"
    /\ cursor > Len(groupedTests)
    /\ pc' = "done"
    /\ result' = Some(FinalResult(request, generatedFiles, errors))
    /\ UNCHANGED <<request, groupedTests, cursor, generatedFiles, errors, writes, pending>>
    /\ UNCHANGED <<parseVars, fnVars, webVars>>

GenNext ==
    \/ MkdirOk
    \/ MkdirFail
    \/ Group
    \/ WriteFileStart
    \/ GenerateFileOk
    \/ GenerateFileFail
    \/ Return

vars == <<request, pc, groupedTests, cursor, generatedFiles, errors,
          result, writes, pending, call, ppc, fileContent, table, thrown,
          fnArg, fnOut, fnPc, browser, calls, closes, cleanup>>



(***************************************************************************)
(* DecisionTableParser: paths and feature names                            *)
(***************************************************************************)
\* the last segment of a path
RECURSIVE LastSegment(_)
LastSegment(p) ==
    IF \E i \in 1..Len(p) : p[i] = "/"
    THEN LastSegment(SubSeq(p, (CHOOSE i \in 1..Len(p) : p[i] = "/") + 1, Len(p)))
    ELSE p

\* index of the last '.' of s, 0 when there is none
LastDot(s) ==
    IF \E i \in 1..Len(s) : s[i] = "."
    THEN CHOOSE i \in 1..Len(s) : s[i] = "." /\ \A j \in (i + 1)..Len(s) : s[j] # "."
    ELSE 0

\* path.extname: from the last '.' of the last segment on; '' when there is
\* no '.' or when the only '.' is the segment's first character
extname(p) ==
    LET b == LastSegment(p)
    IN  IF LastDot(b) <= 1 \/ b = <<".",".">> THEN <<>> ELSE SubSeq(b, LastDot(b), Len(b))

EndsWith(s, suffix) ==
    /\ Len(suffix) <= Len(s)
    /\ SubSeq(s, Len(s) - Len(suffix) + 1, Len(s)) = suffix

\* path.basename(p, ext)
basename(p, ext) ==
    LET b == LastSegment(p)
    IN  IF ext # <<>> /\ b # ext /\ EndsWith(b, ext)
        THEN SubSeq(b, 1, Len(b) - Len(ext))
        ELSE b

StrDecisionTableSuffix ==
    <<"-","d","e","c","i","s","i","o","n","-","t","a","b","l","e">>

\* \w of a regular expression
IsWordChar(c) == IsLower(c) \/ IsUpper(c) \/ IsDigit(c) \/ c = "_"

\* extractFeatureName with the separators replaced before the suffix is
\* looked for
extractFeatureNameReplaceFirst(filePath) ==
    LET fileName == basename(filePath, extname(filePath))
        s2 == [i \in 1..Len(fileName) |->
                  IF fileName[i] = "_" \/ fileName[i] = "-" THEN " " ELSE fileName[i]]
        s1 == IF EndsWith(s2, StrDecisionTableSuffix)
              THEN SubSeq(s2, 1, Len(s2) - Len(StrDecisionTableSuffix))
              ELSE s2
    IN  [i \in 1..Len(s1) |->
            IF IsWordChar(s1[i]) /\ (i = 1 \/ ~IsWordChar(s1[i - 1]))
            THEN toUpperCaseChar(s1[i])
            ELSE s1[i]]

\* extractFeatureName
extractFeatureName(filePath) ==
    LET fileName == basename(filePath, extname(filePath))
        s1 == IF EndsWith(fileName, StrDecisionTableSuffix)
              THEN SubSeq(fileName, 1, Len(fileName) - Len(StrDecisionTableSuffix))
              ELSE fileName
        s2 == [i \in 1..Len(s1) |-> IF s1[i] = "_" \/ s1[i] = "-" THEN " " ELSE s1[i]]
    IN  [i \in 1..Len(s2) |->
            IF IsWordChar(s2[i]) /\ (i = 1 \/ ~IsWordChar(s2[i - 1]))
            THEN toUpperCaseChar(s2[i])
            ELSE s2[i]]

StrCsvExt == <<".","c","s","v">>
StrJsonExt == <<".","j","s","o","n">>
StrMdExt == <<".","m","d">>
StrMarkdownExt == <<".","m","a","r","k","d","o","w","n">>

\* detectFormat comparing the extension as it is written
detectFormatCaseSensitive(filePath) ==
    LET ext == extname(filePath)
    IN  IF ext = StrCsvExt THEN Some("csv")
        ELSE IF ext = StrJsonExt THEN Some("json")
        ELSE IF ext = StrMdExt \/ ext = StrMarkdownExt THEN Some("markdown")
        ELSE None

\* detectFormat: the format of the extension, None when it throws
detectFormat(filePath) ==
    LET ext == toLowerCase(extname(filePath))
    IN  IF ext = StrCsvExt THEN Some("csv")
        ELSE IF ext = StrJsonExt THEN Some("json")
        ELSE IF ext = StrMdExt \/ ext = StrMarkdownExt THEN Some("markdown")
        ELSE None

(***************************************************************************)
(* DecisionTableParser: rows                                               *)
(*                                                                         *)
(* A row is an object: the sequence of its <<key, value>> entries in       *)
(* insertion order, keys and values being strings.  A condition value is   *)
(* a record [t, v]: its JavaScript type t and its string form v.           *)
(***************************************************************************)
\* row[key]: None when the row has no such key
Get(row, key) == IF HasOwn(row, key) THEN Some(row[OwnIndex(row, key)][2]) ELSE None

\* a possibly undefined string in a boolean context
Truthy(o) == IsSome(o) /\ o[1] # <<>>

\* row[k1] || row[k2] || ... || default
RECURSIVE FirstTruthy(_, _, _)
FirstTruthy(row, keys, default) ==
    IF keys = <<>> THEN default
    ELSE IF Truthy(Get(row, Head(keys))) THEN Get(row, Head(keys))[1]
    ELSE FirstTruthy(row, Tail(keys), default)

\* obj[key] = value
SetKey(obj, key, value) ==
    IF HasOwn(obj, key)
    THEN [obj EXCEPT ![OwnIndex(obj, key)] = <<key, value>>]
    ELSE Append(obj, <<key, value>>)

\* String(n) for a natural number
RECURSIVE NumberToString(_)
NumberToString(n) ==
    IF n < 10 THEN <<DigitChars[n + 1]>>
    ELSE NumberToString(n \div 10) \o <<DigitChars[(n % 10) + 1]>>

\* String.prototype.padStart(width, '0')
RECURSIVE padStart(_, _)
padStart(s, width) == IF Len(s) >= width THEN s ELSE padStart(<<"0">> \o s, width)

\* `TC${String(index + 1).padStart(3, '0')}`
AutoId(index) == <<"T","C">> \o padStart(NumberToString(index + 1), 3)

StrId == <<"i","d">>
StrTestId == <<"t","e","s","t"," ","i","d">>
StrTest_Id == <<"t","e","s","t","_","i","d">>
StrName == <<"n","a","m","e">>
StrTestName == <<"t","e","s","t"," ","n","a","m","e">>
StrTest_Name == <<"t","e","s","t","_","n","a","m","e">>
StrDescription == <<"d","e","s","c","r","i","p","t","i","o","n">>
StrAction == <<"a","c","t","i","o","n">>
StrActions == <<"a","c","t","i","o","n","s">>
StrExpectedResult == <<"e","x","p","e","c","t","e","d"," ","r","e","s","u","l","t">>
StrExpected_Result == <<"e","x","p","e","c","t","e","d","_","r","e","s","u","l","t">>
StrExpected == <<"e","x","p","e","c","t","e","d">>
StrPriority == <<"p","r","i","o","r","i","t","y">>
StrTags == <<"t","a","g","s">>
StrMedium == <<"m","e","d","i","u","m">>
StrTrue == <<"t","r","u","e">>
StrFalse == <<"f","a","l","s","e">>
StrNull == <<"n","u","l","l">>
StrUndefined == <<"u","n","d","e","f","i","n","e","d">>

specialColumns ==
    {StrId, StrTestId, StrTest_Id, StrName, StrTestName, StrTest_Name,
     StrDescription, StrAction, StrActions, StrExpectedResult,
     StrExpected_Result, StrExpected, StrPriority, StrTags}

(***************************************************************************)
(* Number(value) and String(number).  A number is [kind, neg, digits,      *)
(* point]: kind is nan, inf or finite; digits are the significant decimal  *)
(* digits without leading or trailing zeros (none for zero) and point is   *)
(* the power of ten n such that the magnitude is 0.digits * 10^n.  The     *)
(* numerals of the model have exponents of at most two digits, which a     *)
(* double holds without overflow or underflow.                             *)
(***************************************************************************)
NaN == [kind |-> "nan", neg |-> FALSE, digits |-> <<>>, point |-> 0]
Infinity(neg) == [kind |-> "inf", neg |-> neg, digits |-> <<>>, point |-> 0]

StrInfinity == <<"I","n","f","i","n","i","t","y">>

\* the longest prefix of s made of decimal digits
RECURSIVE DigitPrefix(_)
DigitPrefix(s) ==
    IF s # <<>> /\ IsDigit(Head(s)) THEN <<Head(s)>> \o DigitPrefix(Tail(s)) ELSE <<>>

RECURSIVE StripLeadingZeros(_)
StripLeadingZeros(ds) ==
    IF ds # <<>> /\ Head(ds) = "0" THEN StripLeadingZeros(Tail(ds)) ELSE ds

RECURSIVE StripTrailingZeros(_)
StripTrailingZeros(ds) ==
    IF ds # <<>> /\ ds[Len(ds)] = "0"
    THEN StripTrailingZeros(SubSeq(ds, 1, Len(ds) - 1))
    ELSE ds

\* the finite number whose magnitude is 0.ds * 10^point
Finite(neg, ds, point) ==
    LET lead == StripLeadingZeros(ds)
        sig == StripTrailingZeros(lead)
    IN  IF sig = <<>>
        THEN [kind |-> "finite", neg |-> neg, digits |-> <<>>, point |-> 0]
        ELSE [kind |-> "finite", neg |-> neg, digits |-> sig,
              point |-> point - (Len(ds) - Len(lead))]

\* the digits of the radixes of NonDecimalIntegerLiteral
RadixDigits(radix) ==
    IF radix = 2 THEN <<"0","1">>
    ELSE IF radix = 8 THEN <<"0","1","2","3","4","5","6","7">>
    ELSE <<"0","1","2","3","4","5","6","7","8","9","a","b","c","d","e","f">>

IsRadixDigit(c, radix) ==
    \E i \in 1..radix : RadixDigits(radix)[i] = toLowerCaseChar(c)

RECURSIVE RadixVal(_, _)
RadixVal(s, radix) ==
    IF s = <<>> THEN 0
    ELSE radix * RadixVal(SubSeq(s, 1, Len(s) - 1), radix)
         + (CHOOSE i \in 1..radix : RadixDigits(radix)[i] = toLowerCaseChar(s[Len(s)])) - 1

\* 0x, 0o and 0b literals: no sign, at least one digit
RadixOf(t) ==
    IF Len(t) < 3 \/ t[1] # "0" THEN 0
    ELSE IF toLowerCaseChar(t[2]) = "x" THEN 16
    ELSE IF toLowerCaseChar(t[2]) = "o" THEN 8
    ELSE IF toLowerCaseChar(t[2]) = "b" THEN 2
    ELSE 0

\* StrUnsignedDecimalLiteral scanned from left to right: integer digits, an
\* optional point and fraction digits (a digit on at least one side), an
\* optional exponent of at least one digit, and nothing after it
DecimalLiteral(neg, body) ==
    LET int == DigitPrefix(body)
        r1 == SubSeq(body, Len(int) + 1, Len(body))
        hasPoint == r1 # <<>> /\ Head(r1) = "."
        frac == IF hasPoint THEN DigitPrefix(Tail(r1)) ELSE <<>>
        r2 == IF hasPoint THEN SubSeq(r1, Len(frac) + 2, Len(r1)) ELSE r1
        hasExp == r2 # <<>> /\ toLowerCaseChar(Head(r2)) = "e"
        r3 == IF hasExp THEN Tail(r2) ELSE r2
        expNeg == hasExp /\ r3 # <<>> /\ Head(r3) = "-"
        r4 == IF hasExp /\ r3 # <<>> /\ (Head(r3) = "-" \/ Head(r3) = "+")
              THEN Tail(r3) ELSE r3
        expDigits == IF hasExp THEN DigitPrefix(r4) ELSE <<>>
        rest == SubSeq(r4, Len(expDigits) + 1, Len(r4))
        exp == IF expNeg THEN 0 - NumVal(expDigits) ELSE NumVal(expDigits)
    IN  IF int \o frac = <<>> \/ (hasExp /\ expDigits = <<>>) \/ rest # <<>>
        THEN NaN
        ELSE Finite(neg, int \o frac, Len(int) + exp)

\* Number(value) for a string: StringToNumber
Number(value) ==
    LET t == trim(value)
        radix == RadixOf(t)
        digits == SubSeq(t, 3, Len(t))
        signed == t # <<>> /\ (Head(t) = "-" \/ Head(t) = "+")
        neg == t # <<>> /\ Head(t) = "-"
        body == IF signed THEN Tail(t) ELSE t
    IN  IF t = <<>> THEN Finite(FALSE, <<>>, 0)
        ELSE IF radix # 0
        THEN (IF \A i \in 1..Len(digits) : IsRadixDigit(digits[i], radix)
              THEN LET ds == NumberToString(RadixVal(digits, radix))
                   IN  Finite(FALSE, ds, Len(ds))
              ELSE NaN)
        ELSE IF body = StrInfinity THEN Infinity(neg)
        ELSE DecimalLiteral(neg, body)

isNaN(x) == x.kind = "nan"

Zeros(n) == [i \in 1..n |-> "0"]

\* String(x), Number::toString in radix 10
StringOfNumber(x) ==
    LET k == Len(x.digits)
        n == x.point
        sign == IF x.neg THEN <<"-">> ELSE <<>>
        e == n - 1
        expText == (IF e < 0 THEN <<"e","-">> ELSE <<"e","+">>)
                       \o NumberToString(IF e < 0 THEN 0 - e ELSE e)
    IN  IF x.kind = "nan" THEN <<"N","a","N">>
        ELSE IF x.kind = "inf" THEN sign \o StrInfinity
        ELSE IF k = 0 THEN <<"0">>
        ELSE IF k <= n /\ n <= 21 THEN sign \o x.digits \o Zeros(n - k)
        ELSE IF 0 < n /\ n <= 21
        THEN sign \o SubSeq(x.digits, 1, n) \o <<".">> \o SubSeq(x.digits, n + 1, k)
        ELSE IF -6 < n /\ n <= 0 THEN sign \o <<"0",".">> \o Zeros(0 - n) \o x.digits
        ELSE IF k = 1 THEN sign \o x.digits \o expText
        ELSE sign \o <<x.digits[1]>> \o <<".">> \o Tail(x.digits) \o expText

\* parseValue with the numeric test made before the keyword tests and the
\* white-space test left out
parseValueNumberFirst(value) ==
    IF ~isNaN(Number(value)) THEN [t |-> "number", v |-> StringOfNumber(Number(value))]
    ELSE IF value = StrTrue THEN [t |-> "boolean", v |-> StrTrue]
    ELSE IF value = StrFalse THEN [t |-> "boolean", v |-> StrFalse]
    ELSE IF value = StrNull THEN [t |-> "null", v |-> StrNull]
    ELSE IF value = StrUndefined THEN [t |-> "undefined", v |-> StrUndefined]
    ELSE [t |-> "string", v |-> value]

\* parseValue: the value as [t, v], its JavaScript type and its String() form
parseValue(value) ==
    IF value = StrTrue THEN [t |-> "boolean", v |-> StrTrue]
    ELSE IF value = StrFalse THEN [t |-> "boolean", v |-> StrFalse]
    ELSE IF value = StrNull THEN [t |-> "null", v |-> StrNull]
    ELSE IF value = StrUndefined THEN [t |-> "undefined", v |-> StrUndefined]
    ELSE IF ~isNaN(Number(value)) /\ trim(value) # <<>>
    THEN [t |-> "number", v |-> StringOfNumber(Number(value))]
    ELSE [t |-> "string", v |-> value]

\* the separator of the template literal of generateTestName
StrArrow == <<" ","-",">"," ">>

\* generateTestName(conditions, expected): conditions is an object whose
\* values are strings; expected is [truthy, text], the value in a boolean
\* context and in a template literal
generateTestName(conditions, expected) ==
    LET entries == ObjectEntries(conditions)
        firstTwo == SubSeq(entries, 1, IF Len(entries) < 2 THEN Len(entries) ELSE 2)
        conditionSummary ==
            join([i \in 1..Len(firstTwo) |-> firstTwo[i][1] \o <<":"," ">> \o firstTwo[i][2]],
                 <<","," ">>)
    IN  IF expected.truthy
        THEN conditionSummary \o StrArrow \o expected.text
        ELSE conditionSummary

\* a string argument of generateTestName
OfString(s) == [truthy |-> s # <<>>, text |-> s]

\* cell.split(',').map((t) => t.trim())
SplitTrim(cell) == LET parts == split(cell, ",") IN [i \in 1..Len(parts) |-> trim(parts[i])]

\* the conditions of a row: every key that is not a special column once
\* lower-cased and trimmed, and whose cell is not empty
RECURSIVE ConditionsOf(_, _)
ConditionsOf(row, keys) ==
    IF keys = <<>> THEN <<>>
    ELSE LET key == Head(keys)
             rest == ConditionsOf(row, Tail(keys))
         IN  IF trim(toLowerCase(key)) \notin specialColumns /\ Truthy(Get(row, key))
             THEN <<<<key, parseValue(Get(row, key)[1])>>>> \o rest
             ELSE rest

ObjectKeys(obj) == LET es == ObjectEntries(obj) IN [i \in 1..Len(es) |-> es[i][1]]

\* priorityOf without the call of toLowerCase
priorityOfVerbatim(row) ==
    IF Truthy(Get(row, StrPriority)) THEN Get(row, StrPriority)[1] ELSE StrMedium

\* row['priority']?.toLowerCase() || 'medium'
priorityOf(row) ==
    LET lowered == IF IsSome(Get(row, StrPriority))
                   THEN toLowerCase(Get(row, StrPriority)[1]) ELSE <<>>
    IN  IF lowered # <<>> THEN lowered ELSE StrMedium

\* convertRowToTestCase
convertRowToTestCase(row, index) ==
    LET id == FirstTruthy(row, <<StrId, StrTestId, StrTest_Id>>, AutoId(index))
        expectedResult ==
            FirstTruthy(row, <<StrExpectedResult, StrExpected_Result, StrExpected>>, <<>>)
        name == IF Truthy(Get(row, StrName)) \/ Truthy(Get(row, StrTestName))
                   \/ Truthy(Get(row, StrTest_Name))
                THEN FirstTruthy(row, <<StrName, StrTestName, StrTest_Name>>, <<>>)
                ELSE generateTestName(row, OfString(expectedResult))
        description == FirstTruthy(row, <<StrDescription>>, <<>>)
        priority == priorityOf(row)
        tags == IF Truthy(Get(row, StrTags)) THEN SplitTrim(Get(row, StrTags)[1]) ELSE <<>>
        actions == FirstTruthy(row, <<StrAction, StrActions>>, <<>>)
        actionsList == filterBoolean(SplitTrim(actions))
        expected ==
            FirstTruthy(row, <<StrExpectedResult, StrExpected_Result, StrExpected>>, <<>>)
        expectedList == filterBoolean(SplitTrim(expected))
    IN  [id |-> id,
         name |-> name,
         description |-> Some(description),
         conditions |-> Some(ConditionsOf(row, ObjectKeys(row))),
         actions |-> actionsList,
         expected_results |-> expectedList,
         priority |-> priority,
         tags |-> tags]

\* convertRowsToTestCases
convertRowsToTestCases(rows) ==
    [i \in 1..Len(rows) |-> convertRowToTestCase(rows[i], i - 1)]

(***************************************************************************)
(* DecisionTableParser: the three formats                                  *)
(*                                                                         *)
(* A file is given by what its reader library yields: a CSV file by its    *)
(* header fields and the fields of its data lines, a JSON file by the      *)
(* parsed document, a Markdown file by the block tokens of marked.lexer.   *)
(* The outcome of a parser is [ok, table] or [ok, error].                  *)
(***************************************************************************)
Ok(t) == [ok |-> TRUE, table |-> t, error |-> ""]
Throw(e) == [ok |-> FALSE, table |-> <<>>, error |-> e]

\* Papa.parse(content, { header: true, skipEmptyLines: true }).data: a line
\* that consists of one empty field is skipped, every other line becomes
\* an object keyed by the header fields
RECURSIVE PapaData(_, _)
PapaData(header, lines) ==
    IF lines = <<>> THEN <<>>
    ELSE LET line == Head(lines)
         IN  IF Len(line) = 1 /\ line[1] = <<>>
             THEN PapaData(header, Tail(lines))
             ELSE <<[i \in 1..Len(header) |-> <<header[i], line[i]>>]>>
                      \o PapaData(header, Tail(lines))

\* parseCSV counting the lines of the file, the skipped ones included
parseCSVCountingLines(content, filePath) ==
    LET data == PapaData(content.header, content.lines)
    IN  Ok([feature |-> extractFeatureName(filePath),
            description |-> None,
            test_cases |-> convertRowsToTestCases(data),
            metadata |-> Some([source |-> filePath, format |-> "csv",
                               row_count |-> Some(Len(content.lines))])])

\* parseCSV
parseCSV(content, filePath) ==
    LET data == PapaData(content.header, content.lines)
    IN  Ok([feature |-> extractFeatureName(filePath),
            description |-> None,
            test_cases |-> convertRowsToTestCases(data),
            metadata |-> Some([source |-> filePath, format |-> "csv",
                               row_count |-> Some(Len(data))])])

\* an array argument of generateTestName: an array is truthy, also when it
\* is empty, and a template literal joins its elements with ','
OfArray(o) ==
    IF IsSome(o) THEN [truthy |-> TRUE, text |-> join(o[1], <<",">>)]
    ELSE [truthy |-> FALSE, text |-> StrUndefined]

OrElse(o, default) == IF IsSome(o) THEN o[1] ELSE default

\* the callback of data.rules.map in parseJSON
RuleToTestCase(rule, index) ==
    [id |-> IF Truthy(rule.id) THEN rule.id[1] ELSE AutoId(index),
     name |-> IF Truthy(rule.name) THEN rule.name[1]
              ELSE generateTestName(rule.conditions[1], OfArray(rule.expected)),
     description |-> rule.description,
     conditions |-> IF IsSome(rule.conditions)
                    THEN Some([i \in 1..Len(rule.conditions[1]) |->
                                  <<rule.conditions[1][i][1],
                                    [t |-> "string", v |-> rule.conditions[1][i][2]]>>])
                    ELSE None,
     actions |-> OrElse(rule.actions, <<>>),
     expected_results |-> OrElse(rule.expected, <<>>),
     priority |-> IF Truthy(rule.priority) THEN rule.priority[1] ELSE StrMedium,
     tags |-> OrElse(rule.tags, <<>>)]

\* Object.entries(undefined) inside generateTestName raises a TypeError
RuleThrows(rule) == ~Truthy(rule.name) /\ ~IsSome(rule.conditions)

\* parseJSON whose rules branch sets no metadata
parseJSONWithoutMetadata(data, filePath) ==
    IF Truthy(data.feature) /\ IsSome(data.test_cases)
    THEN Ok([feature |-> data.feature[1],
             description |-> data.description,
             test_cases |-> data.test_cases[1],
             metadata |-> data.metadata])
    ELSE IF Truthy(data.feature) /\ IsSome(data.rules)
    THEN IF \E i \in 1..Len(data.rules[1]) : RuleThrows(data.rules[1][i])
         THEN Throw("TypeError")
         ELSE Ok([feature |-> data.feature[1],
                  description |-> data.description,
                  test_cases |-> [i \in 1..Len(data.rules[1]) |->
                                    RuleToTestCase(data.rules[1][i], i - 1)],
                  metadata |-> None])
    ELSE Throw("Invalid JSON format. Expected \"feature\" and \"test_cases\" or \"rules\"")

\* parseJSON
parseJSON(data, filePath) ==
    IF Truthy(data.feature) /\ IsSome(data.test_cases)
    THEN Ok([feature |-> data.feature[1],
             description |-> data.description,
             test_cases |-> data.test_cases[1],
             metadata |-> data.metadata])
    ELSE IF Truthy(data.feature) /\ IsSome(data.rules)
    THEN IF \E i \in 1..Len(data.rules[1]) : RuleThrows(data.rules[1][i])
         THEN Throw("TypeError")
         ELSE Ok([feature |-> data.feature[1],
                  description |-> data.description,
                  test_cases |-> [i \in 1..Len(data.rules[1]) |->
                                    RuleToTestCase(data.rules[1][i], i - 1)],
                  metadata |-> Some([source |-> filePath, format |-> "json",
                                     row_count |-> None])])
    ELSE Throw("Invalid JSON format. Expected \"feature\" and \"test_cases\" or \"rules\"")

\* rowData of parseMarkdownTable: the headers zipped with the cells of a row,
\* a missing or empty cell read as ''
RECURSIVE RowData(_, _, _, _)
RowData(headers, row, i, rowData) ==
    IF i > Len(headers) THEN rowData
    ELSE RowData(headers, row, i + 1,
                 SetKey(rowData, headers[i], IF i <= Len(row) THEN row[i] ELSE <<>>))

\* parseMarkdownTable keeping the header cells as they are written
parseMarkdownTableHeadersAsWritten(tableToken) ==
    [r \in 1..Len(tableToken.rows) |->
        convertRowToTestCase(RowData(tableToken.header, tableToken.rows[r], 1, <<>>), r - 1)]

\* parseMarkdownTable
parseMarkdownTable(tableToken) ==
    LET headers == [i \in 1..Len(tableToken.header) |->
                       trim(toLowerCase(tableToken.header[i]))]
    IN  [r \in 1..Len(tableToken.rows) |->
            convertRowToTestCase(RowData(headers, tableToken.rows[r], 1, <<>>), r - 1)]

\* the loop of parseMarkdown from token i on; acc holds featureName,
\* description and testCases
RECURSIVE MarkdownLoop(_, _, _)
MarkdownLoop(tokens, i, acc) ==
    IF i > Len(tokens) THEN acc
    ELSE LET token == tokens[i]
             a1 == IF token.type = "heading" /\ token.depth = 1 /\ acc.featureName = <<>>
                   THEN [acc EXCEPT !.featureName = token.text]
                   ELSE acc
             a2 == IF token.type = "paragraph" /\ ~Truthy(a1.description)
                   THEN [a1 EXCEPT !.description = Some(token.text)]
                   ELSE a1
             a3 == IF token.type = "table"
                   THEN [a2 EXCEPT !.testCases = @ \o parseMarkdownTable(token)]
                   ELSE a2
         IN  MarkdownLoop(tokens, i + 1, a3)

\* parseMarkdown
parseMarkdown(tokens, filePath) ==
    LET acc == MarkdownLoop(tokens, 1,
                            [featureName |-> extractFeatureName(filePath),
                             description |-> None,
                             testCases |-> <<>>])
    IN  Ok([feature |-> acc.featureName,
            description |-> acc.description,
            test_cases |-> acc.testCases,
            metadata |-> Some([source |-> filePath, format |-> "markdown",
                               row_count |-> None])])

(***************************************************************************)
(* Inputs of parse()                                                       *)
(***************************************************************************)
StrTC002 == <<"T","C","0","0","2">>

\* header fields of the CSV files: structural headers in lower case, in
\* upper or mixed case, with surrounding blanks, and a condition column
HeaderPool ==
    {StrId, <<"I","D">>, StrName, StrTags, StrAction, <<"A","c","t","i","o","n">>,
     StrExpected, <<" ","P","r","i","o","r","i","t","y"," ">>, <<"x">>}

\* header lines of one or two distinct fields
HeaderRows ==
    {<<h>> : h \in HeaderPool}
        \cup {hs \in [1..2 -> HeaderPool] : hs[1] # hs[2]}

\* cell texts: empty, one word, a list with a blank fragment, an id of the
\* auto-assigned form
CellPool == {<<>>, <<"a">>, <<"a",","," ",",","b">>, StrTC002}

\* priority cells: empty, a level in lower case, a level with a capital, an
\* unrecognized word in capitals
PriorityCellPool ==
    {<<>>, <<"h","i","g","h">>, <<"H","i","g","h">>, <<"U","R","G","E","N","T">>}

\* lines of a file of two columns: an empty line, two full rows and the
\* row of two empty fields
SparseLinePool ==
    {<< <<>> >>, << <<"a">>, <<"n">> >>, << <<"b">>, <<>> >>, << <<>>, <<>> >>}

EmptyDoc ==
    [feature |-> None, description |-> None, test_cases |-> None, rules |-> None,
     metadata |-> None]

File(kind, header, lines, doc, tokens) ==
    [kind |-> kind, header |-> header, lines |-> lines, doc |-> doc, tokens |-> tokens]

CsvFile(header, lines) == File("csv", header, lines, EmptyDoc, <<>>)
JsonFile(doc) == File("json", <<>>, <<>>, doc, <<>>)
MarkdownFile(tokens) == File("markdown", <<>>, <<>>, EmptyDoc, tokens)
TextFile == File("text", <<>>, <<>>, EmptyDoc, <<>>)

\* the data lines under a header line: at most MaxRows lines of pool cells
LinesPool(header) == SeqsUpTo([1..Len(header) -> CellPool], MaxRows)

\* the rules of the rules-shaped JSON documents
RulePool ==
    [id : {None, Some(StrTC002)},
     name : {None, Some(<<"n">>)},
     description : {None},
     conditions : {None, Some(<<>>),
                   Some(<< <<<<"x">>, <<"a">>>>, <<<<"y">>, <<"a">>>>, <<<<"z">>, <<"a">>>> >>)},
     actions : {None},
     expected : {None, Some(<<>>), Some(<< <<"a">>, <<"b">> >>)},
     priority : {None},
     tags : {None}]

\* named rules with and without actions, priority, tags and description
OptionalFieldsRulePool ==
    [id : {Some(StrTC002)},
     name : {Some(<<"n">>)},
     description : {None, Some(<<"d">>)},
     conditions : {Some(<<>>)},
     actions : {None, Some(<< <<"a">> >>)},
     expected : {None},
     priority : {None, Some(<<"h","i","g","h">>)},
     tags : {None, Some(<< <<"b">> >>)}]

\* a test case of a document that already has the DecisionTable shape
PassThroughCase ==
    [id |-> StrTC002, name |-> <<"n">>, description |-> None,
     conditions |-> Some(<<>>), actions |-> <<>>, expected_results |-> <<>>,
     priority |-> StrMedium, tags |-> <<>>]

\* a rules-shaped document
RulesDoc(rules) == [EmptyDoc EXCEPT !.feature = Some(<<"F">>), !.rules = Some(rules)]

\* documents of the DecisionTable shape, of both shapes and of neither
OtherJsonDocs ==
    {[EmptyDoc EXCEPT !.feature = Some(<<"F">>), !.test_cases = Some(tcs)] :
        tcs \in {<<>>, <<PassThroughCase>>, <<PassThroughCase, PassThroughCase>>}}
    \cup {[EmptyDoc EXCEPT !.feature = Some(<<"F">>), !.test_cases = Some(<<PassThroughCase>>),
                           !.rules = Some(<<>>)],
          EmptyDoc,
          [EmptyDoc EXCEPT !.feature = Some(<<"F">>)],
          [EmptyDoc EXCEPT !.feature = Some(<<>>), !.rules = Some(<<>>)],
          [EmptyDoc EXCEPT !.rules = Some(<<>>)]}

Token(type, depth, text, header, rows) ==
    [type |-> type, depth |-> depth, text |-> text, header |-> header, rows |-> rows]

\* tables of one column headed ID
TableTokens ==
    {Token("table", 0, <<>>, << <<"I","D">> >>, rows) :
        rows \in SeqsUpTo([1..1 -> {<<>>, StrTC002}], MaxRows)}

\* tables of the two columns ' X ' and ID whose rows have one cell (the ID
\* cell is missing) or two
WideTableTokens ==
    {Token("table", 0, <<>>, << <<" ","X"," ">>, <<"I","D">> >>, rows) :
        rows \in SeqsUpTo({<< <<"a">> >>, << <<"b">>, StrTC002 >>}, MaxRows)}

TokenPool ==
    {Token("heading", 1, <<"F">>, <<>>, <<>>),
     Token("heading", 1, <<"G">>, <<>>, <<>>),
     Token("heading", 2, <<"H">>, <<>>, <<>>),
     Token("paragraph", 0, <<"p">>, <<>>, <<>>)} \cup TableTokens

StrPathCsv == <<"t",".","c","s","v">>
StrPathJson == <<"d","/","t",".","j","s","o","n">>
StrPathMd == <<"t",".","m","d">>
StrPathBareMd == StrDecisionTableSuffix \o StrMdExt
StrPathTxt == <<"t",".","t","x","t">>
StrPathUpperCsv == <<"T",".","C","S","V">>
StrPathMarkdown == <<"t">> \o StrMarkdownExt
StrPathUpperMd == <<"t",".","M","D">>
StrPathMixedJson == <<"t",".","J","s","o","n">>
StrPathDotfile == StrCsvExt
StrPathTwoDots == <<"t",".","c","s","v",".","t","x","t">>
StrPathDirDot == <<"d",".","c","s","v","/","t">>
StrPathTrailingDot == <<"t",".","m","d",".">>

Call(tablePath, format, readable, file) ==
    [tablePath |-> tablePath, format |-> format, readable |-> readable, file |-> file]

\* calls with a format argument, an upper-case or unknown extension, an
\* unknown format, an empty file, a cell that reads as a non-finite number
\* or an unreadable path
OtherCalls ==
         {Call(StrPathCsv, None, TRUE, CsvFile(<<>>, <<>>)),
          Call(StrPathTxt, Some("csv"), TRUE, CsvFile(<<StrId>>, << <<StrTC002>> >>)),
          Call(StrPathTxt, Some("json"), TRUE, JsonFile([EmptyDoc EXCEPT !.feature = Some(<<"F">>),
                                                                         !.rules = Some(<<>>)])),
          Call(StrPathCsv, Some("markdown"), TRUE, MarkdownFile(<<>>)),
          Call(StrPathUpperCsv, None, TRUE, CsvFile(<<StrId>>, << <<StrTC002>> >>)),
          Call(StrPathTxt, None, TRUE, TextFile),
          Call(StrPathMarkdown, None, TRUE, MarkdownFile(<<>>)),
          Call(StrPathUpperMd, None, TRUE, MarkdownFile(<<>>)),
          Call(StrPathMixedJson, None, TRUE,
               JsonFile([EmptyDoc EXCEPT !.feature = Some(<<"F">>), !.rules = Some(<<>>)])),
          Call(StrPathDotfile, None, TRUE, CsvFile(<<StrId>>, << <<StrTC002>> >>)),
          Call(StrPathTwoDots, None, TRUE, CsvFile(<<StrId>>, << <<StrTC002>> >>)),
          Call(StrPathDirDot, None, TRUE, CsvFile(<<StrId>>, << <<StrTC002>> >>)),
          Call(StrPathTrailingDot, None, TRUE, MarkdownFile(<<>>)),
          Call(StrPathCsv, None, TRUE, CsvFile(<< <<"x">> >>, << <<StrInfinity>> >>)),
          Call(<<"t">>, None, TRUE, TextFile),
          Call(StrPathTxt, Some("yaml"), TRUE, TextFile),
          Call(StrPathCsv, None, FALSE, TextFile),
          Call(StrPathTxt, None, FALSE, TextFile),
          Call(StrPathTxt, Some("json"), FALSE, TextFile)}

(***************************************************************************)
(* parse                                                                   *)
(***************************************************************************)
\* DetectedFormat asking the extension first and the format argument only
\* when the extension is unknown
DetectedFormatExtensionFirst(c) ==
    IF IsSome(detectFormat(c.tablePath)) THEN detectFormat(c.tablePath) ELSE c.format

\* format || this.detectFormat(tablePath); None when detectFormat throws
DetectedFormat(c) == IF IsSome(c.format) THEN c.format ELSE detectFormat(c.tablePath)

\* the generator at rest while parse() runs
IdleRequest == [test_cases |-> <<>>, steps |-> <<>>, language |-> None, output_path |-> "out"]

\* the calls of parse(): every CSV, JSON and Markdown file of the pools
\* under a path of its own extension, and the other calls
ParseInit ==
    /\ \/ \E h \in HeaderRows : \E l \in LinesPool(h) :
              call = Call(StrPathCsv, None, TRUE, CsvFile(h, l))
       \/ \E ps \in SeqsUpTo(PriorityCellPool, MaxRows) :
              call = Call(StrPathCsv, None, TRUE,
                          CsvFile(<<StrPriority, <<"x">>>>,
                                  [i \in 1..Len(ps) |-> <<ps[i], <<"a">>>>]))
       \/ \E l \in SeqsUpTo(SparseLinePool, MaxRows + 1) :
              call = Call(StrPathCsv, None, TRUE, CsvFile(<< <<"x">>, StrName >>, l))
       \/ \E rs \in SeqsUpTo(RulePool, MaxRows) :
              call = Call(StrPathJson, None, TRUE, JsonFile(RulesDoc(rs)))
       \/ \E rs \in SeqsUpTo(OptionalFieldsRulePool, MaxRows) :
              call = Call(StrPathJson, None, TRUE, JsonFile(RulesDoc(rs)))
       \/ \E d \in OtherJsonDocs :
              call = Call(StrPathJson, None, TRUE, JsonFile(d))
       \/ \E path \in {StrPathMd, StrPathBareMd} : \E ts \in SeqsUpTo(TokenPool, MaxTokens) :
              call = Call(path, None, TRUE, MarkdownFile(ts))
       \/ \E ts \in SeqsUpTo(WideTableTokens, MaxTokens - 1) :
              call = Call(StrPathMd, None, TRUE, MarkdownFile(ts))
       \/ call \in OtherCalls
    /\ ppc = "start"
    /\ fileContent = None
    /\ table = None
    /\ thrown = None
    /\ request = IdleRequest
    /\ pc = "idle"
    /\ groupedTests = <<>>
    /\ cursor = 1
    /\ generatedFiles = <<>>
    /\ errors = <<>>
    /\ result = None
    /\ writes = <<>>
    /\ pending = {}
    /\ fnArg = <<>>
    /\ fnOut = <<>>
    /\ fnPc = "idle"
    /\ WebIdle

\* await fs.readFile(tablePath, 'utf-8') resolves
ReadFileOk ==
    /\ ppc = "start"
    /\ call.readable
    /\ fileContent' = Some(call.file)
    /\ ppc' = "read"
    /\ UNCHANGED <<call, table, thrown>>
    /\ UNCHANGED <<genVars, fnVars, webVars>>

\* fs.readFile rejects and parse() rejects with its error
ReadFileFail ==
    /\ ppc = "start"
    /\ ~call.readable
    /\ thrown' = Some("ENOENT")
    /\ ppc' = "rejected"
    /\ UNCHANGED <<call, fileContent, table>>
    /\ UNCHANGED <<genVars, fnVars, webVars>>

\* the message of the error detectFormat throws, up to the extension
StrCannotDetect == "Cannot detect format from extension"

\* no format argument and detectFormat throws
DetectFail ==
    /\ ppc = "read"
    /\ DetectedFormat(call) = None
    /\ thrown' = Some(StrCannotDetect)
    /\ ppc' = "rejected"
    /\ UNCHANGED <<call, fileContent, table>>
    /\ UNCHANGED <<genVars, fnVars, webVars>>

\* the default branch of the switch of parse()
UnsupportedFormat ==
    /\ ppc = "read"
    /\ IsSome(DetectedFormat(call))
    /\ DetectedFormat(call)[1] \notin {"csv", "json", "markdown"}
    /\ thrown' = Some("Unsupported format")
    /\ ppc' = "rejected"
    /\ UNCHANGED <<call, fileContent, table>>
    /\ UNCHANGED <<genVars, fnVars, webVars>>

\* parse() settles with the outcome of the parser of its format
Settle(outcome) ==
    IF outcome.ok
    THEN /\ table' = Some(outcome.table)
         /\ ppc' = "done"
         /\ UNCHANGED thrown
    ELSE /\ thrown' = Some(outcome.error)
         /\ ppc' = "rejected"
         /\ UNCHANGED table

\* case 'csv'
ParseCSV ==
    /\ ppc = "read"
    /\ DetectedFormat(call) = Some("csv")
    /\ Settle(parseCSV(fileContent[1], call.tablePath))
    /\ UNCHANGED <<call, fileContent>>
    /\ UNCHANGED <<genVars, fnVars, webVars>>

\* case 'json'
ParseJSON ==
    /\ ppc = "read"
    /\ DetectedFormat(call) = Some("json")
    /\ Settle(parseJSON(fileContent[1].doc, call.tablePath))
    /\ UNCHANGED <<call, fileContent>>
    /\ UNCHANGED <<genVars, fnVars, webVars>>

\* case 'markdown'
ParseMarkdown ==
    /\ ppc = "read"
    /\ DetectedFormat(call) = Some("markdown")
    /\ Settle(parseMarkdown(fileContent[1].tokens, call.tablePath))
    /\ UNCHANGED <<call, fileContent>>
    /\ UNCHANGED <<genVars, fnVars, webVars>>

ParseNext ==
    \/ ReadFileOk
    \/ ReadFileFail
    \/ DetectFail
    \/ UnsupportedFormat
    \/ ParseCSV
    \/ ParseJSON
    \/ ParseMarkdown

\* JSON.parse(JSON.stringify(value)) for a condition value: NaN and the
\* infinities are written as null
JSONValue(value) ==
    IF value.t = "number" /\ value.v \in {<<"N","a","N">>, StrInfinity, <<"-">> \o StrInfinity}
    THEN [t |-> "null", v |-> StrNull]
    ELSE value

\* the document JSON.parse reads from JSON.stringify(t) for a table t: a
\* property whose value is undefined is not written
JSONStringify(t) ==
    [feature |-> Some(t.feature),
     description |-> t.description,
     test_cases |->
         Some([i \in 1..Len(t.test_cases) |->
                 [t.test_cases[i] EXCEPT !.conditions =
                     IF @ = None THEN None
                     ELSE LET written == SelectSeq(@[1], LAMBDA e : e[2].t # "undefined")
                          IN  Some([j \in 1..Len(written) |->
                                      <<written[j][1], JSONValue(written[j][2])>>])]]),
     rules |-> None,
     metadata |-> t.metadata]

\* the table parse() resolved with is written as JSON to a file and the file
\* is parsed with format 'json'
ParseSerialised ==
    /\ ppc = "done"
    /\ fnPc = "idle"
    /\ fnArg' = JSONStringify(table[1])
    /\ fnOut' = Some(parseJSON(JSONStringify(table[1]), call.tablePath))
    /\ fnPc' = "returned"
    /\ UNCHANGED <<genVars, parseVars, webVars>>

RoundTripNext ==
    \/ ParseNext
    \/ ParseSerialised

SpecRoundTrip == ParseInit /\ [][RoundTripNext]_vars

(***************************************************************************)
(* The renderers.  Generated source is kept in its parts: a step is the    *)
(* text of its comment, the call it awaits, the texts put between single   *)
(* quotes and the texts put into the statement without quotes; a test      *)
(* block and a module are the texts of their literals and their parts.     *)
(* A step value is [t, v], its JavaScript type and its String() form.      *)
(***************************************************************************)
\* str.replace(/'/g, "\\'").replace(/\n/g, '\\n')
RECURSIVE escapeString(_)
escapeString(str) ==
    IF str = <<>> THEN <<>>
    ELSE (IF Head(str) = "'" THEN <<"\\", "'">>
          ELSE IF Head(str) = "\n" THEN <<"\\", "n">>
          ELSE <<Head(str)>>) \o escapeString(Tail(str))

\* `${x}` for an optional string: the text 'undefined' when x is undefined
TemplateOf(o) == IF IsSome(o) THEN o[1] ELSE StrUndefined

\* String(step.value) and `${step.value}`
StringOfValue(o) == IF IsSome(o) THEN o[1].v ELSE StrUndefined

\* step.value in a boolean context: undefined, '' and 0 are falsy
TruthyValue(o) ==
    /\ IsSome(o)
    /\ o[1].t = "string" => o[1].v # <<>>
    /\ o[1].t = "number" => o[1].v # <<"0">>

\* the parts of a rendered step; todo is the action a placeholder comment
\* names, '' for a statement
Line(comment, awaited, quoted, bare) ==
    [comment |-> comment, awaited |-> awaited, quoted |-> quoted, bare |-> bare,
     todo |-> ""]

StrScreenshotPrefix ==
    <<"s","c","r","e","e","n","s","h","o","t","s","/","s","t","e","p","-">>

\* generatePlaywrightStep
generatePlaywrightStep(step, index) ==
    LET comment == step.description
        selector == TemplateOf(step.selector)
        value == escapeString(StringOfValue(step.value))
    IN  CASE step.action = "navigate" -> Line(comment, "page.goto", <<TemplateOf(step.target)>>, <<>>)
          [] step.action = "click" -> Line(comment, "page.click", <<selector>>, <<>>)
          [] step.action = "fill" -> Line(comment, "page.fill", <<selector, value>>, <<>>)
          [] step.action = "select" -> Line(comment, "page.selectOption", <<selector, value>>, <<>>)
          [] step.action = "check" -> Line(comment, "page.check", <<selector>>, <<>>)
          [] step.action = "uncheck" -> Line(comment, "page.uncheck", <<selector>>, <<>>)
          [] step.action = "wait" ->
                IF Truthy(step.selector)
                THEN Line(comment, "page.waitForSelector", <<selector>>, <<>>)
                ELSE IF TruthyValue(step.value)
                THEN Line(comment, "page.waitForTimeout", <<>>, <<StringOfValue(step.value)>>)
                ELSE Line(comment, "page.waitForLoadState", <<>>, <<>>)
          [] step.action = "assert" ->
                IF IsSome(step.value)
                THEN Line(comment, "expect.toContainText", <<selector, value>>, <<>>)
                ELSE Line(comment, "expect.toBeVisible", <<selector>>, <<>>)
          [] step.action = "screenshot" ->
                Line(comment, "page.screenshot",
                     <<StrScreenshotPrefix \o NumberToString(index + 1) \o <<".","p","n","g">> >>,
                     <<>>)
          [] OTHER -> [Line(comment, "", <<>>, <<>>) EXCEPT !.todo = step.action]

\* testCase.description || testCase.name
BlockComment(testCase) ==
    IF Truthy(testCase.description) THEN testCase.description[1] ELSE testCase.name

\* generatePlaywrightTestCase
generatePlaywrightTestCase(test) ==
    [name |-> escapeString(test.testCase.name),
     comment |-> BlockComment(test.testCase),
     steps |-> [i \in 1..Len(test.steps.steps) |->
                   generatePlaywrightStep(test.steps.steps[i], i - 1)]]

\* generatePlaywrightTest
generatePlaywrightTest(groupName, tests) ==
    [describe |-> escapeString(groupName),
     setup |-> FALSE,
     tests |-> [i \in 1..Len(tests) |-> generatePlaywrightTestCase(tests[i])]]

StrResponse == <<"r","e","s","p","o","n","s","e">>
StrBody == <<"b","o","d","y">>
StrApiSuffix == <<" ","A","P","I">>

\* generateApiStep: the const names the step declares in order, the key of
\* savedResponses it assigns, and the parts of its request and assertions
generateApiStep(step) ==
    [comment |-> step.description,
     method |-> step.method,
     endpoint |-> step.endpoint,
     headers |-> IsSome(step.headers) /\ Len(step.headers[1]) > 0,
     data |-> TruthyValue(step.body),
     status |-> IF IsSome(step.expected_status) /\ step.expected_status[1] # 0
                THEN step.expected_status[1] ELSE 200,
     consts |-> <<StrResponse>>
                    \o (IF Truthy(step.save_response) THEN <<step.save_response[1]>> ELSE <<>>)
                    \o (IF TruthyValue(step.expected_body) THEN <<StrBody>> ELSE <<>>),
     saved |-> IF Truthy(step.save_response) THEN step.save_response ELSE None,
     match |-> TruthyValue(step.expected_body)]

\* generateApiTestCase
generateApiTestCase(test) ==
    [name |-> escapeString(test.testCase.name),
     comment |-> BlockComment(test.testCase),
     steps |-> [i \in 1..Len(test.steps.steps) |-> generateApiStep(test.steps.steps[i])]]

\* generateApiTest
generateApiTest(groupName, tests) ==
    [describe |-> escapeString(groupName) \o StrApiSuffix,
     setup |-> TRUE,
     tests |-> [i \in 1..Len(tests) |-> generateApiTestCase(tests[i])]]

(***************************************************************************)
(* Inputs of the renderers.                                                *)
(***************************************************************************)
StrWithQuote == <<"a","'","b">>
StrWithNewline == <<"a","\n","b">>

StringValue(text) == Some([t |-> "string", v |-> text])
NumberValue(text) == Some([t |-> "number", v |-> text])

WebStep(action, selector, target, value) ==
    [action |-> action, selector |-> selector, target |-> target, value |-> value,
     description |-> <<"d">>]

SelectorPool == {Some(<<"#","a">>), Some(StrWithQuote)}

\* one step or more of every action of WebActionTypeSchema and one of an
\* action outside it, with the fields the action reads present or absent
WebStepPool ==
    {WebStep("navigate", None, t, None) : t \in {None, Some(<<"/">>), Some(StrWithQuote)}}
    \cup {WebStep(a, sel, None, None) : a \in {"click", "check", "uncheck"}, sel \in SelectorPool}
    \cup {WebStep(a, Some(<<"#","a">>), None, v) :
            a \in {"fill", "select"}, v \in {StringValue(StrWithQuote), StringValue(StrWithNewline)}}
    \cup {WebStep("wait", sel, None, v) :
            sel \in {None, Some(<<"#","a">>)},
            v \in {None, NumberValue(<<"0">>), NumberValue(<<"5","0","0">>), StringValue(<<>>)}}
    \cup {WebStep("assert", Some(<<"#","a">>), None, v) :
            v \in {None, NumberValue(<<"0">>), StringValue(StrWithQuote)}}
    \cup {WebStep("screenshot", None, None, None), WebStep("hover", Some(<<"#","a">>), None, None)}

\* steps with and without body, expected_status, expected_body and
\* save_response, and steps whose expected_status is the number 0
ApiStepPool ==
    [method : {"GET", "POST"},
     endpoint : {<<"/","a">>, StrWithQuote},
     headers : {None},
     body : {None, StringValue(<<"a">>)},
     expected_status : {None, Some(201)},
     expected_body : {None, StringValue(<<"a">>)},
     description : {<<"d">>},
     save_response : {None, Some(<<"t","r","i","p">>), Some(StrResponse)}]
    \cup [method : {"GET"},
          endpoint : {<<"/","a">>},
          headers : {None},
          body : {None},
          expected_status : {Some(0)},
          expected_body : {None},
          description : {<<"d">>},
          save_response : {None, Some(<<"t","r","i","p">>)}]

RenderCasePool ==
    {[name |-> <<"n">>, description |-> Some(<<"d">>)],
     [name |-> StrWithQuote, description |-> None]}

GroupNamePool == {StrGeneral, StrWithQuote, StrWithNewline}

\* a bucket of one test case with its steps
Bucket(framework, groupName, testCase, type, steps) ==
    [framework |-> framework,
     groupName |-> groupName,
     tests |-> <<[testCase |-> testCase, steps |-> [type |-> type, steps |-> steps]]>>]

(***************************************************************************)
(* The helpers called on their own: the call starts with its arguments in *)
(* fnArg and returns its value in fnOut, generate() and parse() at rest.   *)
(***************************************************************************)
GenIdle ==
    /\ request = IdleRequest
    /\ pc = "idle"
    /\ groupedTests = <<>>
    /\ cursor = 1
    /\ generatedFiles = <<>>
    /\ errors = <<>>
    /\ result = None
    /\ writes = <<>>
    /\ pending = {}

ParseIdle ==
    /\ call = IdleCall
    /\ ppc = "idle"
    /\ fileContent = None
    /\ table = None
    /\ thrown = None

\* the characters of the cell texts parseValue is called with
ValueAlphabet == {"0", "1", "5", ".", "e", "-", "+", " ", "x", "b"}

StrMinusInfinity == <<"-">> \o StrInfinity

\* cell texts: every non-empty text over the alphabet up to the bound (an
\* empty cell is no condition), the keywords, and texts of the tests
ValuePool ==
    (SeqsUpTo(ValueAlphabet, MaxValueLen) \ {<<>>})
        \cup {StrTrue, StrFalse, StrNull, StrUndefined, StrInfinity, StrMinusInfinity,
              <<"T","r","u","e">>, <<"N","a","N">>, <<"a","c","t","i","v","e">>,
              <<"9","9",".","9","9">>, <<"4","2">>, <<" ","t","r","u","e">>}

ValueInit ==
    /\ fnArg \in ValuePool
    /\ fnOut = None
    /\ fnPc = "start"
    /\ GenIdle
    /\ ParseIdle
    /\ WebIdle

\* conditions[key] = this.parseValue(row[key])
CallParseValue ==
    /\ fnPc = "start"
    /\ fnOut' = Some(parseValue(fnArg))
    /\ fnPc' = "returned"
    /\ UNCHANGED <<fnArg, genVars, parseVars, webVars>>

SpecValue == ValueInit /\ [][CallParseValue]_vars

\* the characters of the file stems: letters of both cases, a digit, the
\* two separators, a point and a blank
StemAlphabet == {"a", "B", "1", "_", "-", ".", " "}

DirPool == {<<>>, <<"d","/">>, <<"a",".","b","/">>}

SuffixPool == {<<>>, StrDecisionTableSuffix}

ExtPool == {<<>>, StrCsvExt, <<".","M","D">>, <<".">>}

StrPathUserAuthentication ==
    <<"u","s","e","r","-","a","u","t","h","e","n","t","i","c","a","t","i","o","n">>
        \o StrDecisionTableSuffix \o StrCsvExt

\* paths of files: a directory, a stem, the suffix or not, an extension or
\* not; '.' and '..' name directories and the empty name names nothing
FeaturePathPool ==
    {path \in {d \o stem \o suffix \o ext :
                  d \in DirPool, stem \in SeqsUpTo(StemAlphabet, MaxStemLen),
                  suffix \in SuffixPool, ext \in ExtPool} :
        LastSegment(path) \notin {<<>>, <<".">>, <<".",".">>}}
        \cup {StrPathUserAuthentication}

FeatureInit ==
    /\ fnArg \in FeaturePathPool
    /\ fnOut = None
    /\ fnPc = "start"
    /\ GenIdle
    /\ ParseIdle
    /\ WebIdle

\* const featureName = this.extractFeatureName(filePath)
CallExtractFeatureName ==
    /\ fnPc = "start"
    /\ fnOut' = Some(extractFeatureName(fnArg))
    /\ fnPc' = "returned"
    /\ UNCHANGED <<fnArg, genVars, parseVars, webVars>>

SpecFeature == FeatureInit /\ [][CallExtractFeatureName]_vars

\* the characters of the bucket names: letters of both cases, a digit, a
\* hyphen, a blank and a quote
NameAlphabet == {"a", "B", "1", "-", " ", "'"}

FileNameInit ==
    /\ fnArg \in [groupName : SeqsUpTo(NameAlphabet, MaxNameLen) \ {<<>>},
                  language : LanguagePool]
    /\ fnOut = None
    /\ fnPc = "start"
    /\ GenIdle
    /\ ParseIdle
    /\ WebIdle

\* const fileName of generateTestFile, language being request.language ||
\* 'typescript'
CallFileName ==
    /\ fnPc = "start"
    /\ fnOut' = Some(FilePath(fnArg.groupName, LanguageOf(fnArg)))
    /\ fnPc' = "returned"
    /\ UNCHANGED <<fnArg, genVars, parseVars, webVars>>

SpecFileName == FileNameInit /\ [][CallFileName]_vars

\* a bucket of web steps for the playwright framework or for both, or of API
\* steps for the api framework
RenderInit ==
    /\ \/ \E g \in GroupNamePool : \E tc \in RenderCasePool :
              \E ss \in SeqsUpTo(WebStepPool, MaxSteps) :
                  fnArg = Bucket("playwright", g, tc, "web", ss)
       \/ \E g \in GroupNamePool : \E tc \in RenderCasePool : \E s \in WebStepPool :
              fnArg = Bucket("both", g, tc, "web", <<s>>)
       \/ \E g \in GroupNamePool : \E tc \in RenderCasePool :
              \E ss \in SeqsUpTo(ApiStepPool, MaxSteps) :
                  fnArg = Bucket("api", g, tc, "api", ss)
    /\ fnOut = None
    /\ fnPc = "start"
    /\ GenIdle
    /\ ParseIdle
    /\ WebIdle

\* framework === 'playwright' || framework === 'both'
CallGeneratePlaywrightTest ==
    /\ fnPc = "start"
    /\ fnArg.framework \in {"playwright", "both"}
    /\ fnOut' = Some(generatePlaywrightTest(fnArg.groupName, fnArg.tests))
    /\ fnPc' = "returned"
    /\ UNCHANGED <<fnArg, genVars, parseVars, webVars>>

\* framework === 'api'
CallGenerateApiTest ==
    /\ fnPc = "start"
    /\ fnArg.framework = "api"
    /\ fnOut' = Some(generateApiTest(fnArg.groupName, fnArg.tests))
    /\ fnPc' = "returned"
    /\ UNCHANGED <<fnArg, genVars, parseVars, webVars>>

RenderNext ==
    \/ CallGeneratePlaywrightTest
    \/ CallGenerateApiTest

SpecRender == RenderInit /\ [][RenderNext]_vars

(***************************************************************************)
(* WebAgent: execute() and cleanup() on one agent.  A call is at idle (not *)
(* made), launch (awaiting chromium.launch), run (awaiting the context, the *)
(* page, the steps, the screenshots or context.close), closing (awaiting   *)
(* browser.close in the try block), catchClosing (awaiting browser.close   *)
(* in the catch block) or returned.                                        *)
(***************************************************************************)
WebInit ==
    /\ WebIdle
    /\ GenIdle
    /\ ParseIdle
    /\ fnArg = <<>>
    /\ fnOut = <<>>
    /\ fnPc = "idle"

\* execute() is called: it runs up to await chromium.launch(...)
ExecuteStart(c) ==
    /\ calls[c].pc = "idle"
    /\ calls' = [calls EXCEPT ![c].pc = "launch"]
    /\ UNCHANGED <<browser, closes, cleanup>>
    /\ UNCHANGED <<genVars, parseVars, fnVars>>

\* the catch block of execute(): if (this.browser) it awaits
\* this.browser.close(), else it returns the failure
Catch(c) ==
    IF browser # 0
    THEN /\ closes' = [closes EXCEPT ![browser] = @ + 1]
         /\ calls' = [calls EXCEPT ![c].pc = "catchClosing"]
         /\ UNCHANGED <<browser, cleanup>>
    ELSE /\ calls' = [calls EXCEPT ![c].pc = "returned"]
         /\ UNCHANGED <<browser, closes, cleanup>>

\* chromium.launch resolves: this.browser = the new browser
LaunchOk(c) ==
    /\ calls[c].pc = "launch"
    /\ closes' = Append(closes, 0)
    /\ browser' = Len(closes) + 1
    /\ calls' = [calls EXCEPT ![c].pc = "run", ![c].own = Len(closes) + 1]
    /\ UNCHANGED cleanup
    /\ UNCHANGED <<genVars, parseVars, fnVars>>

\* chromium.launch rejects
LaunchFail(c) ==
    /\ calls[c].pc = "launch"
    /\ Catch(c)
    /\ UNCHANGED <<genVars, parseVars, fnVars>>

\* the context, the page, the steps and context.close() went through on
\* the call's own browser, which nobody closed; await this.browser.close()
\* reads this.browser: a TypeError when it is null
StepsOk(c) ==
    /\ calls[c].pc = "run"
    /\ closes[calls[c].own] = 0
    /\ IF browser # 0
       THEN /\ closes' = [closes EXCEPT ![browser] = @ + 1]
            /\ calls' = [calls EXCEPT ![c].pc = "closing"]
            /\ UNCHANGED <<browser, cleanup>>
       ELSE Catch(c)
    /\ UNCHANGED <<genVars, parseVars, fnVars>>

\* one of the awaits of the try block rejects (a step fails, or the call's
\* browser was closed)
StepsFail(c) ==
    /\ calls[c].pc = "run"
    /\ Catch(c)
    /\ UNCHANGED <<genVars, parseVars, fnVars>>

\* browser.close() of the try block resolves: this.browser = null and the
\* success result is returned
CloseDone(c) ==
    /\ calls[c].pc = "closing"
    /\ browser' = 0
    /\ calls' = [calls EXCEPT ![c].pc = "returned", ![c].success = TRUE]
    /\ UNCHANGED <<closes, cleanup>>
    /\ UNCHANGED <<genVars, parseVars, fnVars>>

\* browser.close() of the catch block resolves: this.browser = null and the
\* failure result is returned
CatchCloseDone(c) ==
    /\ calls[c].pc = "catchClosing"
    /\ browser' = 0
    /\ calls' = [calls EXCEPT ![c].pc = "returned"]
    /\ UNCHANGED <<closes, cleanup>>
    /\ UNCHANGED <<genVars, parseVars, fnVars>>

\* cleanup() is called: if (this.browser) it awaits this.browser.close(),
\* else it returns
CleanupStart ==
    /\ cleanup = "idle"
    /\ IF browser # 0
       THEN /\ closes' = [closes EXCEPT ![browser] = @ + 1]
            /\ cleanup' = "closing"
       ELSE /\ cleanup' = "done"
            /\ UNCHANGED closes
    /\ UNCHANGED <<browser, calls>>
    /\ UNCHANGED <<genVars, parseVars, fnVars>>

\* browser.close() of cleanup() resolves: this.browser = null
CleanupDone ==
    /\ cleanup = "closing"
    /\ browser' = 0
    /\ cleanup' = "done"
    /\ UNCHANGED <<calls, closes>>
    /\ UNCHANGED <<genVars, parseVars, fnVars>>

WebNext ==
    \/ \E c \in Calls : ExecuteStart(c)
    \/ \E c \in Calls : LaunchOk(c)
    \/ \E c \in Calls : LaunchFail(c)
    \/ \E c \in Calls : StepsOk(c)
    \/ \E c \in Calls : StepsFail(c)
    \/ \E c \in Calls : CloseDone(c)
    \/ \E c \in Calls : CatchCloseDone(c)
    \/ CleanupStart
    \/ CleanupDone

SpecWeb == WebInit /\ [][WebNext]_vars

SpecGen == GenInit /\ [][GenNext]_vars

SpecParse == ParseInit /\ [][ParseNext]_vars

(***************************************************************************)
(* Properties of generate()                                                *)
(***************************************************************************)
Resolved == pc = "done" /\ IsSome(result)

\* no TestSteps entry has test_case_id equal to id
NoStepsFor(id) == \A i \in 1..Len(request.steps) : request.steps[i].test_case_id # id

MatchedCases == {i \in 1..Len(request.test_cases) : ~NoStepsFor(request.test_cases[i].id)}
UnmatchedCases == {i \in 1..Len(request.test_cases) : NoStepsFor(request.test_cases[i].id)}

\* the bucket names of the request: the group names of its matched test cases
Buckets == {GroupNameOf(request.test_cases[i]) : i \in MatchedCases}

\* the result came from the outer catch (directory creation or grouping failed)
IsFatal(r) == IsSome(r.errors) /\ \E k \in 1..Len(r.errors[1]) : r.errors[1][k].kind = "fatal"

FileIds(file) == {file.content.blocks[b].test : b \in 1..Len(file.content.blocks)}

UnmatchedAbsent(r) ==
    \A i \in UnmatchedCases :
        /\ \A f \in 1..Len(r.files_generated) :
              request.test_cases[i].id \notin FileIds(r.files_generated[f])
        /\ IsSome(r.errors) =>
              \A k \in 1..Len(r.errors[1]) :
                  r.errors[1][k].kind = "bucket" => r.errors[1][k].text \in Buckets

C2_TotalTestsIsInputCount ==
    Resolved => result[1].total_tests = Len(request.test_cases)

\* C3: when the loop over the buckets ran, every bucket has either exactly
\* one generated file or exactly one error, never both; success is true
\* exactly when no bucket failed; files plus errors equals the number of
\* buckets.
C3_PerBucketErrors ==
    (Resolved /\ ~IsFatal(result[1])) =>
        LET r == result[1]
            errs == IF IsSome(r.errors) THEN r.errors[1] ELSE <<>>
            filesOf(b) == {f \in 1..Len(r.files_generated) :
                              r.files_generated[f].content.describe = b}
            errsOf(b) == {k \in 1..Len(errs) : errs[k].text = b}
        IN  /\ \A b \in Buckets :
                  \/ Cardinality(filesOf(b)) = 1 /\ errsOf(b) = {}
                  \/ Cardinality(errsOf(b)) = 1 /\ filesOf(b) = {}
            /\ r.success <=> (\A b \in Buckets : errsOf(b) = {})
            /\ Len(r.files_generated) + Len(errs) = Cardinality(Buckets)

\* C3 witness: a call with at least two buckets returned after one bucket
\* failed and another was written.
C3_Witness ==
    /\ Resolved
    /\ ~IsFatal(result[1])
    /\ IsSome(result[1].errors)
    /\ Len(result[1].files_generated) >= 1

\* C4: generate() never rejects; a failure of directory creation, grouping or
\* a bucket yields success = false with a non-empty errors list, and errors
\* is absent exactly when success is true.
C4_NeverRejects ==
    /\ pc # "rejected"
    /\ pc = "done" =>
          /\ IsSome(result)
          /\ LET r == result[1]
                 failed == \/ ~Creatable(request.output_path)
                           \/ groupTestCases(request.test_cases, request.steps).threw
                           \/ errors # <<>>
             IN  /\ failed => (~r.success /\ IsSome(r.errors) /\ r.errors[1] # <<>>)
                 /\ r.success <=> ~IsSome(r.errors)

\* C4 witness: a call whose output directory could not be created has
\* returned a result.
C4_Witness ==
    /\ pc = "done"
    /\ ~Creatable(request.output_path)
    /\ IsSome(result)

\* C5: within one generate() call no file path is written twice, two
\* distinct buckets never map to the same path.
C5_PathsWrittenOnce ==
    \A i, j \in 1..Len(writes) : i # j => writes[i][1] # writes[j][1]


(***************************************************************************)
(* Properties of parse()                                                   *)
(***************************************************************************)
ParsedAs(format) ==
    ppc = "done" /\ IsSome(table) /\ DetectedFormat(call) = Some(format)

\* parse() returned a table built from CSV rows, Markdown rows or JSON rules
ParsedFromRows ==
    \/ ParsedAs("csv")
    \/ ParsedAs("markdown")
    \/ ParsedAs("json") /\ ~IsSome(call.file.doc.test_cases)

\* the rows of all tables of a Markdown file, in document order
RECURSIVE MarkdownRows(_)
MarkdownRows(tokens) ==
    IF tokens = <<>> THEN <<>>
    ELSE LET token == Head(tokens)
             headers == [i \in 1..Len(token.header) |-> trim(toLowerCase(token.header[i]))]
         IN  (IF token.type = "table"
              THEN [r \in 1..Len(token.rows) |-> RowData(headers, token.rows[r], 1, <<>>)]
              ELSE <<>>) \o MarkdownRows(Tail(tokens))

\* the rows the test cases of a CSV or Markdown call come from
SourceRows ==
    IF DetectedFormat(call) = Some("csv")
    THEN PapaData(call.file.header, call.file.lines)
    ELSE MarkdownRows(call.file.tokens)

\* the id the source row or rule of test case i gives, None when it gives none
ExplicitId(i) ==
    IF DetectedFormat(call) = Some("json")
    THEN (IF Truthy(call.file.doc.rules[1][i].id) THEN call.file.doc.rules[1][i].id ELSE None)
    ELSE (IF \E key \in {StrId, StrTestId, StrTest_Id} : Truthy(Get(SourceRows[i], key))
          THEN Some(FirstTruthy(SourceRows[i], <<StrId, StrTestId, StrTest_Id>>, <<>>))
          ELSE None)

\* C6: after a successful parse() of a CSV, rules-shaped JSON or Markdown
\* input whose explicit ids are pairwise distinct, every test case has a
\* non-empty id and no two test cases share an id, also when explicit ids
\* and auto-assigned TC### ids are mixed.
C6_UniqueNonEmptyIds ==
    ParsedFromRows =>
        LET tcs == table[1].test_cases
            given == {i \in 1..Len(tcs) : IsSome(ExplicitId(i))}
        IN  (\A i, j \in given : i # j => ExplicitId(i) # ExplicitId(j)) =>
                /\ \A i \in 1..Len(tcs) : tcs[i].id # <<>>
                /\ \A i, j \in 1..Len(tcs) : i # j => tcs[i].id # tcs[j].id

\* C7: the feature of a parsed Markdown document is the text of its first
\* level-1 heading when it has one, and the file-derived name otherwise.
C7_FirstH1IsFeature ==
    ParsedAs("markdown") =>
        LET ts == call.file.tokens
            h1s == {i \in 1..Len(ts) : ts[i].type = "heading" /\ ts[i].depth = 1}
        IN  IF h1s # {}
            THEN table[1].feature = ts[CHOOSE i \in h1s : \A j \in h1s : i <= j].text
            ELSE table[1].feature = extractFeatureName(call.tablePath)

\* the row with every header lower-cased and trimmed
NormalizedRow(row) == [i \in 1..Len(row) |-> <<trim(toLowerCase(row[i][1])), row[i][2]>>]

\* C8: in a CSV file a structural header in any letter case and with
\* surrounding blanks feeds id, actions, expected_results and priority as its
\* lower-case trimmed form does, and never becomes a condition.
C8_HeadersCaseInsensitive ==
    ParsedAs("csv") =>
        LET data == SourceRows
        IN  \A i \in 1..Len(data) :
                LET tc == table[1].test_cases[i]
                    norm == NormalizedRow(data[i])
                    ref == convertRowToTestCase(norm, i - 1)
                IN  (\A a, b \in 1..Len(norm) : a # b => norm[a][1] # norm[b][1]) =>
                        /\ tc.id = ref.id
                        /\ tc.actions = ref.actions
                        /\ tc.expected_results = ref.expected_results
                        /\ tc.priority = ref.priority
                        /\ \A k \in 1..Len(tc.conditions[1]) :
                              trim(toLowerCase(tc.conditions[1][k][1])) \notin specialColumns

\* the comma-split of a cell, every fragment trimmed, empty fragments dropped
Fragments(cell) == filterBoolean(SplitTrim(cell))

\* C9: for every CSV or Markdown row, tags, actions and expected_results are
\* the comma-split of their cell with fragments trimmed and empty fragments
\* dropped; no test case has an empty string among them.
C9_MultiValueFields ==
    (ParsedAs("csv") \/ ParsedAs("markdown")) =>
        LET data == SourceRows
        IN  \A i \in 1..Len(data) :
                LET tc == table[1].test_cases[i]
                    row == data[i]
                IN  /\ IsSome(Get(row, StrTags)) => tc.tags = Fragments(Get(row, StrTags)[1])
                    /\ IsSome(Get(row, StrAction)) =>
                          tc.actions = Fragments(Get(row, StrAction)[1])
                    /\ IsSome(Get(row, StrExpected)) =>
                          tc.expected_results = Fragments(Get(row, StrExpected)[1])
                    /\ <<>> \notin Range(tc.tags)
                    /\ <<>> \notin Range(tc.actions)
                    /\ <<>> \notin Range(tc.expected_results)

\* 'key: value, key: value' of the first two conditions of a test case,
\* followed by the arrow and the first expected result when there is one
NameFromConditions(tc) ==
    LET conds == tc.conditions[1]
        firstTwo == SubSeq(conds, 1, IF Len(conds) < 2 THEN Len(conds) ELSE 2)
        summary == join([i \in 1..Len(firstTwo) |->
                            firstTwo[i][1] \o <<":"," ">> \o firstTwo[i][2].v],
                        <<","," ">>)
    IN  IF tc.expected_results # <<>>
        THEN summary \o StrArrow \o tc.expected_results[1]
        ELSE summary

\* the source row or rule of test case i gives a name
NameGiven(i) ==
    IF DetectedFormat(call) = Some("json")
    THEN Truthy(call.file.doc.rules[1][i].name)
    ELSE \E key \in {StrName, StrTestName, StrTest_Name} : Truthy(Get(SourceRows[i], key))

\* C10: a test case whose row or rule gives no name is named after its first
\* two condition entries only, followed by the arrow and the first expected
\* result when at least one expected result exists.
C10_SynthesizedName ==
    ParsedFromRows =>
        \A i \in 1..Len(table[1].test_cases) :
            ~NameGiven(i) => table[1].test_cases[i].name = NameFromConditions(table[1].test_cases[i])

\* the priority cell of source row i: row['priority'], None when the row has
\* no such key
PriorityCell(i) == Get(SourceRows[i], StrPriority)

\* C11 as stated: the priority of a CSV or Markdown row is its priority cell
\* character for character when the cell is not empty, and 'medium' when the
\* cell is missing or empty.
C11_Original ==
    (ParsedAs("csv") \/ ParsedAs("markdown")) =>
        \A i \in 1..Len(SourceRows) :
            table[1].test_cases[i].priority =
                (IF Truthy(PriorityCell(i)) THEN PriorityCell(i)[1] ELSE StrMedium)

\* C11 amended: the priority of a CSV or Markdown row is its priority cell
\* with every letter in lower case when the cell is not empty, whether or not
\* that is low, medium or high, and 'medium' when the cell is missing or empty.
C11_PriorityLowerCased ==
    (ParsedAs("csv") \/ ParsedAs("markdown")) =>
        \A i \in 1..Len(SourceRows) :
            LET given == table[1].test_cases[i].priority
                cell == PriorityCell(i)
            IN  IF Truthy(cell)
                THEN /\ Len(given) = Len(cell[1])
                     /\ \A k \in 1..Len(given) :
                           /\ ~IsUpper(given[k])
                           /\ given[k] = cell[1][k] \/ toUpperCaseChar(given[k]) = cell[1][k]
                ELSE given = StrMedium

\* a CSV row whose priority cell is an unrecognized word in capitals, next to
\* a row whose priority cell is empty
C11_Witness ==
    /\ ParsedAs("csv")
    /\ \E i, j \in 1..Len(SourceRows) :
          /\ PriorityCell(i) = Some(<<"U","R","G","E","N","T">>)
          /\ table[1].test_cases[i].priority = <<"u","r","g","e","n","t">>
          /\ PriorityCell(j) = Some(<<>>)
          /\ table[1].test_cases[j].priority = StrMedium

\* a text made of decimal digits only
IsDigits(s) == \A i \in 1..Len(s) : IsDigit(s[i])

\* an exponent part: e or E, an optional sign, at least one digit
IsExponentPart(s) ==
    /\ Len(s) >= 2
    /\ s[1] \in {"e", "E"}
    /\ LET x == IF s[2] \in {"+", "-"} THEN SubSeq(s, 3, Len(s)) ELSE Tail(s)
       IN  x # <<>> /\ IsDigits(x)

\* the exponent an exponent part denotes, 0 for the empty part
ExponentOf(s) ==
    IF s = <<>> THEN 0
    ELSE IF s[2] = "-" THEN 0 - NumVal(SubSeq(s, 3, Len(s)))
    ELSE IF s[2] = "+" THEN NumVal(SubSeq(s, 3, Len(s)))
    ELSE NumVal(Tail(s))

\* the ways to read body as an unsigned decimal numeral: integer digits up
\* to position a, then nothing or a point and fraction digits up to position
\* b, then nothing or an exponent part, with a digit before or after the point
DecimalParts(body) ==
    {p \in [a : 0..Len(body), b : 0..Len(body)] :
        /\ p.a <= p.b
        /\ IsDigits(SubSeq(body, 1, p.a))
        /\ p.b > p.a => body[p.a + 1] = "." /\ IsDigits(SubSeq(body, p.a + 2, p.b))
        /\ p.a > 0 \/ p.b > p.a + 1
        /\ p.b < Len(body) => IsExponentPart(SubSeq(body, p.b + 1, Len(body)))}

\* the number a text denotes when the whole of it, surrounding blanks
\* aside, is a numeral: a signed decimal numeral, a signed Infinity or an
\* unsigned literal in radix 2, 8 or 16; NaN when it is none of these
Denoted(text) ==
    LET t == trim(text)
        neg == t # <<>> /\ Head(t) = "-"
        body == IF t # <<>> /\ Head(t) \in {"-", "+"} THEN Tail(t) ELSE t
        radix == RadixOf(t)
    IN  IF t = <<>> THEN NaN
        ELSE IF radix # 0 /\ \A i \in 3..Len(t) : IsRadixDigit(t[i], radix)
        THEN LET ds == NumberToString(RadixVal(SubSeq(t, 3, Len(t)), radix))
             IN  Finite(FALSE, ds, Len(ds))
        ELSE IF body = StrInfinity THEN Infinity(neg)
        ELSE IF DecimalParts(body) # {}
        THEN LET p == CHOOSE q \in DecimalParts(body) : TRUE
                 int == SubSeq(body, 1, p.a)
                 frac == SubSeq(body, p.a + 2, p.b)
             IN  Finite(neg, int \o frac,
                        Len(int) + ExponentOf(SubSeq(body, p.b + 1, Len(body))))
        ELSE NaN

\* two numbers are equal: zero is equal to zero whatever its sign
SameNumber(x, y) ==
    /\ x.kind = y.kind
    /\ x.kind # "nan"
    /\ x.digits = y.digits
    /\ x.point = y.point
    /\ (x.kind = "inf" \/ x.digits # <<>>) => x.neg = y.neg

\* C12: parseValue maps 'true' to the boolean true, 'false' to the boolean
\* false, 'null' to null, 'undefined' to undefined, any other text that parses
\* fully as a number to that number, and every other text to itself as a
\* string; every text has exactly one of these outcomes.
C12_CoercionRule ==
    fnPc = "returned" =>
        LET value == fnArg
            r == fnOut[1]
        IN  IF value = StrTrue THEN r = [t |-> "boolean", v |-> StrTrue]
            ELSE IF value = StrFalse THEN r = [t |-> "boolean", v |-> StrFalse]
            ELSE IF value = StrNull THEN r = [t |-> "null", v |-> StrNull]
            ELSE IF value = StrUndefined THEN r = [t |-> "undefined", v |-> StrUndefined]
            ELSE IF ~isNaN(Denoted(value))
            THEN r.t = "number" /\ SameNumber(Denoted(r.v), Denoted(value))
            ELSE r = [t |-> "string", v |-> value]

\* a text with an exponent was coerced to the number it denotes
C12_Witness ==
    /\ fnPc = "returned"
    /\ fnArg = <<"1","e","1">>
    /\ fnOut = Some([t |-> "number", v |-> <<"1","0">>])

StrInvalidJson == "Invalid JSON format. Expected \"feature\" and \"test_cases\" or \"rules\""

\* C13: a JSON document with a feature and test_cases is returned as it is,
\* also when it has rules too; otherwise a document with a feature and rules
\* gives one test case per rule, in order, with actions and expected_results
\* defaulting to empty, priority to 'medium' and tags to empty; for every
\* other document parse() rejects with the error that names both shapes and
\* returns no table.
C13_JsonShapes ==
    (DetectedFormat(call) = Some("json") /\ call.readable /\ ppc \in {"done", "rejected"}) =>
        LET doc == call.file.doc
        IN  IF Truthy(doc.feature) /\ IsSome(doc.test_cases)
            THEN /\ ppc = "done"
                 /\ table[1].feature = doc.feature[1]
                 /\ table[1].test_cases = doc.test_cases[1]
            ELSE IF Truthy(doc.feature) /\ IsSome(doc.rules)
            THEN /\ ppc = "done"
                 /\ Len(table[1].test_cases) = Len(doc.rules[1])
                 /\ \A i \in 1..Len(doc.rules[1]) :
                       LET rule == doc.rules[1][i]
                           tc == table[1].test_cases[i]
                       IN  /\ IsSome(rule.id) => tc.id = rule.id[1]
                           /\ tc.actions = (IF IsSome(rule.actions) THEN rule.actions[1] ELSE <<>>)
                           /\ tc.expected_results =
                                  (IF IsSome(rule.expected) THEN rule.expected[1] ELSE <<>>)
                           /\ tc.priority =
                                  (IF IsSome(rule.priority) THEN rule.priority[1] ELSE StrMedium)
                           /\ tc.tags = (IF IsSome(rule.tags) THEN rule.tags[1] ELSE <<>>)
            ELSE /\ ppc = "rejected"
                 /\ table = None
                 /\ thrown = Some(StrInvalidJson)

\* the file name of the path ends with the extension e, compared without
\* regard to letter case, after a stem of at least one character
HasExtension(path, e) ==
    /\ Len(path) > Len(e)
    /\ toLowerCase(SubSeq(path, Len(path) - Len(e) + 1, Len(path))) = e
    /\ path[Len(path) - Len(e)] # "/"

\* the format parse() handed the file to, as far as the outcome shows it
HandledAs(format) ==
    \/ /\ ppc = "done"
       /\ \/ IsSome(table[1].metadata) /\ table[1].metadata[1].format = format
          \/ format = "json" /\ table[1].metadata = None
    \/ /\ ppc = "rejected"
       /\ format = "json"
       /\ thrown \notin {Some(StrCannotDetect), Some("Unsupported format")}

\* C14: parse() without a format argument, once the file is read, treats a
\* path ending in .csv as csv, in .json as json, in .md or .markdown as
\* markdown, whatever the letter case of the extension; for every other
\* path, also one without extension, it rejects with the error of the format
\* detection and returns no table.
C14_DetectByExtension ==
    (call.format = None /\ call.readable /\ ppc \in {"done", "rejected"}) =>
        IF HasExtension(call.tablePath, StrCsvExt) THEN HandledAs("csv")
        ELSE IF HasExtension(call.tablePath, StrJsonExt) THEN HandledAs("json")
        ELSE IF HasExtension(call.tablePath, StrMdExt)
                \/ HasExtension(call.tablePath, StrMarkdownExt) THEN HandledAs("markdown")
        ELSE ppc = "rejected" /\ table = None /\ thrown = Some(StrCannotDetect)

\* a readable file whose name has .csv before an unknown last extension
\* was rejected by the format detection
C14_Witness ==
    /\ call.format = None
    /\ call.tablePath = StrPathTwoDots
    /\ ppc = "rejected"
    /\ table = None
    /\ thrown = Some(StrCannotDetect)

\* the path without its directory: what follows the last '/'
FileNameOf(path) ==
    LET slashes == {i \in 1..Len(path) : path[i] = "/"}
    IN  IF slashes = {} THEN path
        ELSE SubSeq(path, (CHOOSE i \in slashes : \A j \in slashes : j <= i) + 1, Len(path))

\* the file name without its extension: what precedes the last '.', unless
\* the name has no '.' after its first character
WithoutExtension(file) ==
    LET dots == {i \in 2..Len(file) : file[i] = "."}
    IN  IF dots = {} THEN file
        ELSE SubSeq(file, 1, (CHOOSE i \in dots : \A j \in dots : j <= i) - 1)

\* the name without a trailing '-decision-table'
WithoutSuffix(name) ==
    IF EndsWith(name, StrDecisionTableSuffix)
    THEN SubSeq(name, 1, Len(name) - Len(StrDecisionTableSuffix))
    ELSE name

IsLetterOrDigit(c) == IsLower(c) \/ IsUpper(c) \/ IsDigit(c)

\* C15: extractFeatureName drops the directory and the extension of the
\* path, then a trailing '-decision-table', then gives every underscore and
\* hyphen as a blank and every first character of a word (a run of letters
\* and digits) in upper case, leaving every other character as it is.
C15_FeatureName ==
    fnPc = "returned" =>
        LET stem == WithoutSuffix(WithoutExtension(FileNameOf(fnArg)))
            feature == fnOut[1]
        IN  /\ Len(feature) = Len(stem)
            /\ \A i \in 1..Len(stem) :
                  IF stem[i] \in {"_", "-"} THEN feature[i] = " "
                  ELSE IF IsLetterOrDigit(stem[i])
                          /\ (i = 1 \/ ~IsLetterOrDigit(stem[i - 1]))
                  THEN feature[i] = toUpperCaseChar(stem[i])
                  ELSE feature[i] = stem[i]

\* 'user-authentication-decision-table.csv' gave 'User Authentication'
C15_Witness ==
    /\ fnPc = "returned"
    /\ fnArg = StrPathUserAuthentication
    /\ fnOut = Some(<<"U","s","e","r"," ","A","u","t","h","e","n","t","i","c","a","t","i","o","n">>)

\* the index of the first matched test case of bucket b
FirstCaseOf(b) ==
    CHOOSE i \in MatchedCases :
        /\ GroupNameOf(request.test_cases[i]) = b
        /\ \A j \in MatchedCases : GroupNameOf(request.test_cases[j]) = b => i <= j

\* the ids of the matched test cases of bucket b, in input order
RECURSIVE IdsOfBucket(_, _)
IdsOfBucket(b, i) ==
    IF i > Len(request.test_cases) THEN <<>>
    ELSE (IF i \in MatchedCases /\ GroupNameOf(request.test_cases[i]) = b
          THEN <<request.test_cases[i].id>> ELSE <<>>) \o IdsOfBucket(b, i + 1)

\* C16: when the loop over the buckets ran, every generated file is the file
\* of a bucket named by the first tag of its test cases ('general' without
\* tags), holds the matched test cases of that bucket in input order, and the
\* files follow one another in the order in which the first test case of
\* their bucket occurs in the input, whatever the characters of the name.
C16_BucketsInEncounterOrder ==
    (Resolved /\ ~IsFatal(result[1])) =>
        LET files == result[1].files_generated
            bucket(f) == files[f].content.describe
        IN  /\ \A f \in 1..Len(files) :
                  /\ bucket(f) \in Buckets
                  /\ [k \in 1..Len(files[f].content.blocks) |-> files[f].content.blocks[k].test]
                         = IdsOfBucket(bucket(f), 1)
            /\ \A f, g \in 1..Len(files) :
                  f < g => FirstCaseOf(bucket(f)) < FirstCaseOf(bucket(g))

\* the positions of the letters and digits of a name, in ascending order
RECURSIVE AlnumPositions(_, _)
AlnumPositions(name, i) ==
    IF i > Len(name) THEN <<>>
    ELSE (IF IsLetterOrDigit(name[i]) THEN <<i>> ELSE <<>>) \o AlnumPositions(name, i + 1)

\* the slug of a name: its letters and digits in lower case, one hyphen
\* between two of them that are not adjacent in the name
RECURSIVE SlugFrom(_, _, _)
SlugFrom(name, ps, k) ==
    IF k > Len(ps) THEN <<>>
    ELSE (IF k > 1 /\ ps[k] > ps[k - 1] + 1 THEN <<"-">> ELSE <<>>)
             \o <<toLowerCaseChar(name[ps[k]])>> \o SlugFrom(name, ps, k + 1)

StrSpec == <<".","s","p","e","c",".">>

Escaped(text) ==
    \A i \in 1..Len(text) :
        /\ text[i] # "\n"
        /\ text[i] = "'" => (i > 1 /\ text[i - 1] = "\\")

\* the texts a rendered module holds between single quotes: the suite name,
\* the test names, and per step the selector, target and value of a web step
\* or the endpoint and the savedResponses key of an API step
QuotedTexts(content) ==
    {content.describe}
        \cup {content.tests[k].name : k \in 1..Len(content.tests)}
        \cup UNION {UNION {(IF content.setup
                            THEN {content.tests[k].steps[i].endpoint}
                                     \cup Range(content.tests[k].steps[i].saved)
                            ELSE Range(content.tests[k].steps[i].quoted)) :
                           i \in 1..Len(content.tests[k].steps)} :
                    k \in 1..Len(content.tests)}

\* C18: in a rendered module no text between single quotes (bucket name, test
\* name, step value, selector, target, endpoint, save_response name) holds a
\* raw newline or a single quote without a backslash before it.
C18_QuotedTextsEscaped ==
    fnPc = "returned" => \A text \in QuotedTexts(fnOut[1]) : Escaped(text)

\* C19: in a rendered API module the const names declared inside one test
\* block are pairwise distinct, for any number of steps, with or without
\* save_response and expected_body.
C19_ConstsDeclaredOnce ==
    (fnPc = "returned" /\ fnArg.framework = "api") =>
        \A k \in 1..Len(fnOut[1].tests) :
            LET steps == fnOut[1].tests[k].steps
                decls == {<<i, j>> \in (1..Len(steps)) \X (1..3) : j <= Len(steps[i].consts)}
            IN  \A d, e \in decls :
                    d # e => steps[d[1]].consts[d[2]] # steps[e[1]].consts[e[2]]

\* the call a web step is to render to: by its action, for wait by the
\* presence of a selector and then of a value, for assert by the presence of
\* a value; '' for an action outside the list
AwaitedFor(step) ==
    CASE step.action = "navigate" -> "page.goto"
      [] step.action = "click" -> "page.click"
      [] step.action = "fill" -> "page.fill"
      [] step.action = "select" -> "page.selectOption"
      [] step.action = "check" -> "page.check"
      [] step.action = "uncheck" -> "page.uncheck"
      [] step.action = "screenshot" -> "page.screenshot"
      [] step.action = "wait" ->
            (IF IsSome(step.selector) THEN "page.waitForSelector"
             ELSE IF IsSome(step.value) THEN "page.waitForTimeout"
             ELSE "page.waitForLoadState")
      [] step.action = "assert" ->
            (IF IsSome(step.value) THEN "expect.toContainText" ELSE "expect.toBeVisible")
      [] OTHER -> ""

\* C20: every web step renders to its description as a comment followed by
\* the one statement of its action; wait takes the fixed-duration form for
\* any present value, 0 included, when no selector is present; an action
\* outside the list renders to a placeholder comment that names it.
C20_StatementPerWebStep ==
    (fnPc = "returned" /\ fnArg.framework # "api") =>
        \A k \in 1..Len(fnArg.tests) :
            \A i \in 1..Len(fnArg.tests[k].steps.steps) :
                LET step == fnArg.tests[k].steps.steps[i]
                    line == fnOut[1].tests[k].steps[i]
                IN  /\ Len(fnOut[1].tests[k].steps) = Len(fnArg.tests[k].steps.steps)
                    /\ line.comment = step.description
                    /\ line.awaited = AwaitedFor(step)
                    /\ line.todo = (IF AwaitedFor(step) = "" THEN step.action ELSE "")

\* C21: every API step renders to one call with the step's method and
\* endpoint as they are, followed by the assertion of the status: the step's
\* expected_status when one is given, whatever its value, else 200; the
\* parsed body is stored in savedResponses under the save_response name when
\* one is set, and under no name otherwise.
C21_ApiStepStatement ==
    (fnPc = "returned" /\ fnArg.framework = "api") =>
        \A k \in 1..Len(fnArg.tests) :
            /\ Len(fnOut[1].tests[k].steps) = Len(fnArg.tests[k].steps.steps)
            /\ \A i \in 1..Len(fnArg.tests[k].steps.steps) :
                LET step == fnArg.tests[k].steps.steps[i]
                    line == fnOut[1].tests[k].steps[i]
                IN  /\ line.method = step.method
                    /\ line.endpoint = step.endpoint
                    /\ line.status = (IF step.expected_status = <<>> THEN 200
                                      ELSE step.expected_status[1])
                    /\ line.saved = step.save_response

\* a table without the properties whose value is undefined
WithoutUndefined(t) ==
    [t EXCEPT !.test_cases =
        [i \in 1..Len(t.test_cases) |->
            [t.test_cases[i] EXCEPT !.conditions =
                IF @ = None THEN None
                ELSE Some(SelectSeq(@[1], LAMBDA e : e[2].t # "undefined"))]]]

\* C22: the table parse() returned, written as a JSON document and parsed
\* with format json, is returned again: the second parse succeeds and its
\* table has the feature, description, test cases and metadata of the first,
\* properties of value undefined apart.
C22_RoundTrip ==
    fnPc = "returned" =>
        /\ fnOut[1].ok
        /\ WithoutUndefined(fnOut[1].table) = WithoutUndefined(table[1])

\* the format a call is parsed with: the format argument, else the one the
\* extension of the path stands for
FormatUsed ==
    IF call.format # None THEN call.format[1]
    ELSE IF HasExtension(call.tablePath, StrCsvExt) THEN "csv"
    ELSE IF HasExtension(call.tablePath, StrJsonExt) THEN "json"
    ELSE "markdown"

\* C23 as stated: every table parse() returns, for CSV, Markdown and both
\* shapes of JSON document, has metadata whose source is the path given to
\* parse() and whose format is the format the file was parsed with.
C23_Original ==
    ppc = "done" =>
        /\ table[1].metadata # None
        /\ table[1].metadata[1].source = call.tablePath
        /\ table[1].metadata[1].format = FormatUsed

\* C23: every table parse() builds from a CSV file, a Markdown file or a
\* JSON document of the rules shape has metadata whose source is the path
\* given to parse() and whose format is the format the file was parsed with;
\* a JSON document that has feature and test_cases is returned as it is,
\* with the metadata the document holds, if any.
C23_MetadataOfBuiltTables ==
    ppc = "done" =>
        IF FormatUsed = "json" /\ call.file.doc.test_cases # None
        THEN /\ table[1].feature = call.file.doc.feature[1]
             /\ table[1].description = call.file.doc.description
             /\ table[1].test_cases = call.file.doc.test_cases[1]
             /\ table[1].metadata = call.file.doc.metadata
        ELSE /\ table[1].metadata # None
             /\ table[1].metadata[1].source = call.tablePath
             /\ table[1].metadata[1].format = FormatUsed

\* a rules document under a .txt path was parsed with the format argument
\* json and its table names the path and json
C23_Witness ==
    /\ ppc = "done"
    /\ call.format = Some("json")
    /\ call.tablePath = StrPathTxt
    /\ call.file.doc.rules # None
    /\ table[1].metadata = Some([source |-> StrPathTxt, format |-> "json", row_count |-> None])

\* the lines of the CSV file of the call that are not empty
DataLines == SelectSeq(call.file.lines, LAMBDA line : line # << <<>> >>)

\* the id auto-assigned to the i-th data row (i < 10)
AutoIdText(i) == <<"T","C","0","0">> \o <<DigitChars[i + 1]>>

\* the cell of a data line under the header field h, None without the field
CellUnder(line, h) ==
    IF \E j \in 1..Len(call.file.header) : call.file.header[j] = h
    THEN Some(line[CHOOSE j \in 1..Len(call.file.header) : call.file.header[j] = h])
    ELSE None

InBucketOrder(files) ==
    \E f \in [1..Len(files) -> 1..Len(groupedTests)] :
        /\ \A i, j \in 1..Len(files) : i < j => f[i] < f[j]
        /\ \A i \in 1..Len(files) :
            /\ files[i].content.describe = groupedTests[f[i]][1]
            /\ files[i].test_count = Len(groupedTests[f[i]][2])

\* at most one write is pending; a write is pending or done only after
\* fs.mkdir resolved; the files pushed and the writes done are those of
\* buckets in loop order, and the result lists them so
WritesInOrder ==
    /\ Cardinality(pending) <= 1
    /\ (pending # {} \/ writes # <<>>) =>
           (pc \in {"loop", "done"} /\ Creatable(request.output_path))
    /\ ~Creatable(request.output_path) => (writes = <<>> /\ generatedFiles = <<>>)
    /\ InBucketOrder(generatedFiles)
    /\ Len(writes) = Len(generatedFiles)
    /\ \A i \in 1..Len(writes) : writes[i] = <<generatedFiles[i].path, generatedFiles[i].content>>
    /\ (pc = "done" /\ result[1].success) => result[1].files_generated = generatedFiles

\* a write is issued for the bucket at the cursor only when every earlier
\* bucket has settled, and a write completes only for the pending bucket
OneWriteAtATime ==
    /\ (pending' # pending /\ pending' # {}) =>
           /\ pending = {}
           /\ pending' = {cursor}
           /\ Len(generatedFiles) + Len(errors) = cursor - 1
    /\ writes' # writes =>
           /\ pending = {cursor}
           /\ pending' = {}
           /\ Len(writes') = Len(writes) + 1
           /\ cursor' = cursor + 1

\* C25: during one generate() call the directory creation completes before
\* the first file write; the buckets are rendered and written one after
\* another in the order of the loop, never two writes at a time, and
\* files_generated lists the written buckets in that order; when the
\* directory creation fails no file is written.
C25_SequentialWrites == [](WritesInOrder) /\ [][OneWriteAtATime]_vars

\* the write of the second bucket is pending after the first was written
C25_Witness ==
    /\ pending = {2}
    /\ Len(groupedTests) = 2
    /\ Len(writes) = 1
    /\ writes[1][2].describe = groupedTests[1][1]

\* the rows of the tables of a Markdown document in document order, each
\* with its table and its position in the table
RECURSIVE TableRows(_)
TableRows(tokens) ==
    IF tokens = <<>> THEN <<>>
    ELSE (IF Head(tokens).type = "table"
          THEN [r \in 1..Len(Head(tokens).rows) |-> [tableToken |-> Head(tokens), r |-> r]]
          ELSE <<>>) \o TableRows(Tail(tokens))

\* the cell of row r of a table under the column whose header, lower-cased
\* and trimmed, is key: '' for a missing cell, None without such a column
TableCell(tableToken, r, key) ==
    LET cols == {j \in 1..Len(tableToken.header) :
                    trim(toLowerCase(tableToken.header[j])) = key}
    IN  IF cols = {} THEN None
        ELSE LET j == CHOOSE c \in cols : \A d \in cols : d <= c
             IN  IF j <= Len(tableToken.rows[r]) THEN Some(tableToken.rows[r][j])
                 ELSE Some(<<>>)

\* C26: the test cases of a Markdown document are the rows of its tables in
\* document order; each row is read under the lower-cased, trimmed headers of
\* its own table, a missing cell as ''; a row without id gets the
\* auto-assigned id of its position in its own table, so the count restarts
\* at TC001 with every table.
C26_MarkdownTables ==
    (ppc = "done" /\ FormatUsed = "markdown") =>
        LET rows == TableRows(call.file.tokens)
        IN  /\ Len(table[1].test_cases) = Len(rows)
            /\ \A i \in 1..Len(rows) :
                LET tc == table[1].test_cases[i]
                    id == TableCell(rows[i].tableToken, rows[i].r, StrId)
                    x == TableCell(rows[i].tableToken, rows[i].r, <<"x">>)
                IN  /\ tc.id = (IF id \in {None, Some(<<>>)} THEN AutoIdText(rows[i].r)
                                ELSE id[1])
                    /\ IF x \in {None, Some(<<>>)}
                       THEN Get(tc.conditions[1], <<"x">>) = None
                       ELSE /\ Get(tc.conditions[1], <<"x">>) # None
                            /\ Get(tc.conditions[1], <<"x">>)[1].v = x[1]

\* a document of two tables, each with one row whose ID cell is missing, was
\* parsed to two test cases that both have the id TC001
C26_Witness ==
    /\ ppc = "done"
    /\ Len(call.file.tokens) = 2
    /\ \A k \in 1..2 : call.file.tokens[k].rows = << << <<"a">> >> >>
    /\ Len(table[1].test_cases) = 2
    /\ \A k \in 1..2 :
        /\ table[1].test_cases[k].id = <<"T","C","0","0","1">>
        /\ Get(table[1].test_cases[k].conditions[1], <<"x">>)[1].v = <<"a">>

\* the outcome of parse() for an unreadable path is the read failure; the
\* error of the format detection is raised only without format argument and
\* with the file read; a call with a format argument is handled as that
\* format or rejected as unsupported, whatever the extension
ReadThenDetect ==
    /\ (ppc \in {"done", "rejected"} /\ ~call.readable) =>
           (ppc = "rejected" /\ thrown = Some("ENOENT") /\ fileContent = None)
    /\ thrown = Some(StrCannotDetect) =>
           (call.format = None /\ call.readable /\ fileContent # None)
    /\ (ppc \in {"done", "rejected"} /\ call.readable /\ call.format # None) =>
           IF call.format[1] \in {"csv", "json", "markdown"}
           THEN HandledAs(call.format[1])
           ELSE thrown = Some("Unsupported format")

\* parse() settles with a table or with an error other than the read
\* failure only after the file was read
SettlesAfterRead ==
    (ppc' \in {"done", "rejected"} /\ ppc \notin {"done", "rejected"}
        /\ thrown' # Some("ENOENT")) => fileContent # None

\* C27: parse() reads the file before it determines the format and a format
\* argument overrides the extension: an unreadable path gives the read
\* failure whatever the extension and the format argument, and the error of
\* the format detection is raised only when no format argument was given and
\* the file was read.
C27_ReadBeforeDetect == [](ReadThenDetect) /\ [][SettlesAfterRead]_vars

\* an unreadable .txt path with the format argument json was rejected with
\* the read failure
C27_Witness ==
    /\ ppc = "rejected"
    /\ call.tablePath = StrPathTxt
    /\ call.format = Some("json")
    /\ ~call.readable
    /\ thrown = Some("ENOENT")

\* C28: when generate() returns success = true, the test counts of the
\* generated files add up to the number of input test cases that have a
\* TestSteps entry, every file holds one test case or more, and every such
\* test case is rendered in the file of its bucket and in no other.
C28_CountsOnSuccess ==
    (Resolved /\ result[1].success) =>
        LET files == result[1].files_generated
        IN  /\ SumTestCount(files) = Cardinality(MatchedCases)
            /\ \A f \in 1..Len(files) :
                /\ files[f].test_count >= 1
                /\ files[f].test_count = Len(files[f].content.blocks)
                /\ [b \in 1..Len(files[f].content.blocks) |-> files[f].content.blocks[b].test]
                       = IdsOfBucket(files[f].content.describe, 1)
            /\ \A i \in MatchedCases :
                Cardinality({f \in 1..Len(files) :
                    files[f].content.describe = GroupNameOf(request.test_cases[i])}) = 1

\* a request of one test case with steps and one without returned success
\* with one file of one test
C28_Witness ==
    /\ Resolved
    /\ result[1].success
    /\ Len(request.test_cases) = 2
    /\ Cardinality(MatchedCases) = 1
    /\ Len(result[1].files_generated) = 1
    /\ result[1].files_generated[1].test_count = 1

\* the positions of the TestSteps entries of the request with the id
EntriesFor(id) == {k \in 1..Len(request.steps) : request.steps[k].test_case_id = id}

\* every test case of every file pushed so far is rendered with the steps of
\* the first TestSteps entry that has its id; the outputs and errors of a
\* call that passed grouping are those of the buckets of its matched test
\* cases, one each, whatever other entries the steps hold
FirstEntryRendered ==
    /\ \A f \in 1..Len(generatedFiles) :
        \A b \in 1..Len(generatedFiles[f].content.blocks) :
            LET block == generatedFiles[f].content.blocks[b]
            IN  /\ EntriesFor(block.test) # {}
                /\ \A k \in EntriesFor(block.test) :
                      (\A j \in EntriesFor(block.test) : k <= j) =>
                          block.steps = request.steps[k].steps
    /\ (Resolved /\ ~IsFatal(result[1])) =>
           /\ Len(generatedFiles) + Len(errors) = Cardinality(Buckets)
           /\ \A e \in 1..Len(errors) : errors[e].kind = "bucket" /\ errors[e].text \in Buckets

\* C29: of several TestSteps entries with the same test_case_id the first of
\* the supplied sequence is the one every test case with that id is rendered
\* with; an entry whose id is the id of no test case gives no output and no
\* error; generate() never changes the steps of its request.
C29_FirstStepsEntry == [](FirstEntryRendered) /\ [][request' = request]_vars

\* a request whose two TestSteps entries have the id TC1, the first with the
\* steps s2, gave a file whose test is rendered with s2
C29_Witness ==
    /\ Len(request.steps) = 2
    /\ request.steps[1] = [test_case_id |-> "TC1", steps |-> "s2"]
    /\ request.steps[2] = [test_case_id |-> "TC1", steps |-> "s1"]
    /\ Len(generatedFiles) = 1
    /\ generatedFiles[1].content.blocks[1].steps = "s2"

\* every execute() call that was made has returned and cleanup() was not
\* called
AllReturned ==
    /\ \E c \in Calls : calls[c].pc = "returned"
    /\ \A c \in Calls : calls[c].pc \in {"idle", "returned"}
    /\ cleanup = "idle"

\* once the calls have returned the handle is null and every browser
\* launched was closed once
BrowsersReleased ==
    AllReturned =>
        /\ browser = 0
        /\ \A b \in 1..Len(closes) : closes[b] = 1

\* cleanup() called while the handle is null returns without closing
\* anything
CleanupNoOp ==
    (cleanup = "idle" /\ cleanup' # "idle" /\ browser = 0) =>
        (cleanup' = "done" /\ UNCHANGED <<browser, calls, closes>>)

\* C30: a WebAgent releases every browser it launches: once all execute()
\* calls on the agent have returned, with success or failure, the handle is
\* null and every launched browser was closed exactly once, also when two
\* calls on the same agent overlap; cleanup() without an active browser is a
\* no-op that does not throw.
C30_BrowsersReleased == [](BrowsersReleased) /\ [][CleanupNoOp]_vars

====
